---- MODULE Spec2Model ----
(***************************************************************************)
(* Message-analysis pipeline of the student mental-health backend:         *)
(* SafetyScreener, SequentialProcessor (five checkpoints), RiskCalculator, *)
(* TemporalAnalyzer and the /api/messages/process endpoint.                *)
(*                                                                         *)
(* Conventions                                                             *)
(*  - Optional values: None is the empty tuple, Some(x) the 1-tuple <<x>>. *)
(*  - A confidence is a number of millionths (Unit = 1.0); the mean that   *)
(*    _calculate_overall_risk returns is kept as the exact fraction        *)
(*    [num, den] (sum of the confidences, how many there are).             *)
(*  - calculated_at is a day number, read from the clock `now`.            *)
(*  - A persisted RiskProfile row keeps the columns that later reads use   *)
(*    (student_id, overall_risk, recommended_action, calculated_at).       *)
(***************************************************************************)
EXTENDS Integers, Sequences, FiniteSets, TLC

(* ---------------------------------------------------------------- bounds *)
\* how many requests the endpoint serves
MaxRequests == 2
\* how many PHQ-9 assessment rows may be on file
MaxAssessments == 1

(* ------------------------------------------------------------- utilities *)
None == <<>>
Some(x) == <<x>>
IsSome(o) == o # <<>>
Get(o) == o[1]

Unit == 1000 * 1000
\* x * (tenths / 10), exact for the values that occur
Times(x, tenths) == (x * tenths) \div 10
Min(a, b) == IF a <= b THEN a ELSE b

RECURSIVE SumSeq(_)
SumSeq(s) == IF s = <<>> THEN 0 ELSE Head(s) + SumSeq(Tail(s))

\* the least element of a non-empty sequence
RECURSIVE MinSeq(_)
MinSeq(s) == IF Len(s) = 1 THEN s[1]
             ELSE LET m == MinSeq(Tail(s)) IN IF Head(s) <= m THEN Head(s) ELSE m

\* max(s) of a non-empty list
RECURSIVE MaxSeq(_)
MaxSeq(s) == IF Len(s) = 1 THEN s[1]
             ELSE LET m == MaxSeq(Tail(s)) IN IF Head(s) >= m THEN Head(s) ELSE m

SelectIdx(s, P(_)) == {i \in 1..Len(s) : P(s[i])}

Students == {"s1", "s2"}

(* --------------------------------------------------------- SafetyScreener *)
CRISIS_KEYWORDS ==
    << "kill\\s+myself", "end\\s+it\\s+all", "suicide", "goodbye\\s+forever",
       "won't\\s+be\\s+here\\s+tomorrow", "final\\s+message",
       "ending\\s+my\\s+life", "taking\\s+my\\s+life" >>

PLAN_INDICATORS ==
    << "plan\\s+to\\s+kill", "going\\s+to\\s+end", "method\\s+to", "way\\s+to\\s+die" >>

\* the fallback patterns of RiskCalculator._fallback_keyword_analysis
suicidal_patterns ==
    << "kill\\s+(myself|my\\s+self)", "killing\\s+(myself|my\\s+self)",
       "end\\s+it\\s+all", "ending\\s+my\\s+life", "taking\\s+my\\s+life",
       "suicide", "commit\\s+suicide" >>

\* The message texts the model submits.
MessageTexts ==
    { "i had a good day",
      "i want to kill myself",
      "i keep thinking about killing myself",
      "i found a way to die" }

\* re.search(pattern, text_lower): the pairs (pattern, text) that match, for
\* the texts above ("killing myself" holds no "kill" followed by white space).
re_search(pattern, text) ==
    <<pattern, text>> \in
       { << "kill\\s+myself", "i want to kill myself" >>,
         << "kill\\s+(myself|my\\s+self)", "i want to kill myself" >>,
         << "killing\\s+(myself|my\\s+self)", "i keep thinking about killing myself" >>,
         << "way\\s+to\\s+die", "i found a way to die" >> }

\* flags in the order screen_immediate appends them
RECURSIVE MatchFlags(_, _, _)
MatchFlags(prefix, patterns, text) ==
    IF patterns = <<>> THEN <<>>
    ELSE (IF re_search(Head(patterns), text)
            THEN << <<prefix, Head(patterns)>> >> ELSE <<>>)
         \o MatchFlags(prefix, Tail(patterns), text)

\* the dict screen_immediate returns for the flags it collected
ScreenResult(flags) ==
    [ crisis_detected |-> flags # <<>>,
      flags           |-> flags,
      reason          |-> IF flags # <<>> THEN Some("immediate_safety_concern") ELSE None ]

screen_immediate(message_text) ==
    ScreenResult(MatchFlags("crisis_keyword", CRISIS_KEYWORDS, message_text)
                 \o MatchFlags("plan_indicator", PLAN_INDICATORS, message_text))

\* The replies the text-generation collaborator may give at checkpoint 3.
LLMReplies == { "i hear you", "you should take medication and rest" }

\* filter_response: re.sub of the medical-advice patterns
filter_response(response) ==
    IF response = "you should take medication and rest"
    THEN "[medical advice removed] and rest"
    ELSE response

(* ------------------------------------------------------------ confidences *)
\* p hundredths as a confidence: Conf(95) is 0.95
Conf(p) == (p * Unit) \div 100

RECURSIVE GCD(_, _)
GCD(a, b) == IF b = 0 THEN a ELSE GCD(b, a % b)

\* an exact fraction in lowest terms (den > 0)
Reduce(n, d, g) == [num |-> n \div g, den |-> d \div g]
Frac(n, d) == Reduce(n, d, GCD(IF n < 0 THEN -n ELSE n, d))
\* the fraction of one confidence value
FracOf(c) == Frac(c, Unit)
\* comparisons of a fraction of confidences with a confidence value
FracGT(f, c) == f.num * Unit > c * f.den
FracLT(f, c) == f.num * Unit < c * f.den
FracIn01(f) == f.num >= 0 /\ f.num <= f.den

(* ---------------------------------------------------------- schemas/risk.py *)
RiskLevels == {"LOW", "MEDIUM", "HIGH", "CRISIS"}

\* Field(ge=0.0, le=1.0)
FieldOk(confidence) == confidence >= 0 /\ confidence <= Unit

\* SuicidalIdeationFactor(**d): the declared fields only; any other key of d
\* (reason, is_literal, requires_human_review) is not a field and is dropped
SuicidalIdeationFactor(d) ==
    [present |-> d.present, confidence |-> d.confidence]

\* DepressionSeverityFactor(**d)
DepressionSeverityFactor(d) ==
    [estimated_phq9 |-> d.estimated_phq9, confidence |-> d.confidence,
     reason |-> d.reason]

\* BehaviorChangeFactor(**d)
BehaviorChangeFactor(d) ==
    [concern |-> d.concern, confidence |-> d.confidence, reason |-> d.reason]

\* RiskFactors(...): each given dict is validated into its factor model;
\* ok is FALSE when a confidence is outside [0, 1] (pydantic ValidationError)
RiskFactors(si, dep, beh) ==
    [ ok |-> /\ (IsSome(si)  => FieldOk(Get(si).confidence))
             /\ (IsSome(dep) => FieldOk(Get(dep).confidence))
             /\ (IsSome(beh) => FieldOk(Get(beh).confidence)),
      suicidal_ideation   |-> IF IsSome(si) THEN Some(SuicidalIdeationFactor(Get(si))) ELSE None,
      depression_severity |-> IF IsSome(dep) THEN Some(DepressionSeverityFactor(Get(dep))) ELSE None,
      behavior_change     |-> IF IsSome(beh) THEN Some(BehaviorChangeFactor(Get(beh))) ELSE None ]

(* ------------------------------------------- text-generation collaborator *)
\* One answer of llm.generate to the contextual-risk prompt:
\*   kind "raise": the call raises (connectivity or provider error)
\*   kind "text":  the answer is not JSON
\*   kind "json":  a JSON object; keys_ok says whether the three top-level
\*                 keys are there, *_is_bool / *_is_num whether a value has
\*                 the type the prompt asks for
SIBlock(present_is_bool, present, is_literal, conf_is_num, confidence) ==
    [present_is_bool |-> present_is_bool, present |-> present,
     is_literal |-> is_literal, conf_is_num |-> conf_is_num,
     confidence |-> confidence]

DepBlock(severity_estimate, conf_is_num, confidence) ==
    [severity_estimate |-> severity_estimate, conf_is_num |-> conf_is_num,
     confidence |-> confidence]

Analysis(keys_ok, si, dep, sarcasm) ==
    [kind |-> "json", keys_ok |-> keys_ok, si |-> si, dep |-> dep, sarcasm |-> sarcasm]

NoAnswer(kind) ==
    [Analysis(FALSE, SIBlock(FALSE, FALSE, FALSE, FALSE, 0), DepBlock("LOW", FALSE, 0), FALSE)
        EXCEPT !.kind = kind]

LLMRaise   == NoAnswer("raise")
LLMGarbage == NoAnswer("text")

\* well-formed answers
LLMWellFormed ==
    { Analysis(TRUE, SIBlock(TRUE, FALSE, TRUE,  TRUE, Conf(50)),  DepBlock("LOW",    TRUE, Conf(50)),  FALSE),
      Analysis(TRUE, SIBlock(TRUE, TRUE,  TRUE,  TRUE, Conf(100)), DepBlock("LOW",    TRUE, Conf(50)),  FALSE),
      Analysis(TRUE, SIBlock(TRUE, TRUE,  FALSE, TRUE, Conf(50)),  DepBlock("MEDIUM", TRUE, Conf(50)),  TRUE),
      Analysis(TRUE, SIBlock(TRUE, FALSE, TRUE,  TRUE, Conf(50)),  DepBlock("HIGH",   TRUE, Conf(100)), FALSE),
      Analysis(TRUE, SIBlock(TRUE, FALSE, TRUE,  TRUE, Conf(50)),  DepBlock("SEVERE", TRUE, Conf(50)),  FALSE) }

\* structurally invalid answers: a missing top-level key, a non-boolean
\* present, a suicidal-ideation confidence of 1.5, depression confidences of
\* -0.5 and 1.5, a non-numeric depression confidence
LLMMalformed ==
    { Analysis(FALSE, SIBlock(TRUE, TRUE,  TRUE, TRUE, Conf(50)),  DepBlock("MEDIUM", TRUE,  Conf(50)),  FALSE),
      Analysis(TRUE,  SIBlock(FALSE, TRUE, TRUE, TRUE, Conf(50)),  DepBlock("MEDIUM", TRUE,  Conf(50)),  FALSE),
      Analysis(TRUE,  SIBlock(TRUE, TRUE,  TRUE, TRUE, Conf(150)), DepBlock("MEDIUM", TRUE,  Conf(50)),  FALSE),
      Analysis(TRUE,  SIBlock(TRUE, FALSE, TRUE, TRUE, Conf(50)),  DepBlock("MEDIUM", TRUE,  -Conf(50)), FALSE),
      Analysis(TRUE,  SIBlock(TRUE, FALSE, TRUE, TRUE, Conf(50)),  DepBlock("HIGH",   TRUE,  Conf(150)), FALSE),
      Analysis(TRUE,  SIBlock(TRUE, FALSE, TRUE, TRUE, Conf(50)),  DepBlock("MEDIUM", FALSE, 0),         FALSE) }

\* answers the pipeline specification draws from
LLMQuiet    == Analysis(TRUE, SIBlock(TRUE, FALSE, TRUE, TRUE, Conf(50)),  DepBlock("LOW",    TRUE, Conf(50)),  FALSE)
LLMLiteral  == Analysis(TRUE, SIBlock(TRUE, TRUE,  TRUE, TRUE, Conf(100)), DepBlock("LOW",    TRUE, Conf(50)),  FALSE)
LLMModerate == Analysis(TRUE, SIBlock(TRUE, TRUE,  FALSE, TRUE, Conf(50)), DepBlock("MEDIUM", TRUE, Conf(50)),  TRUE)
LLMNegative == Analysis(TRUE, SIBlock(TRUE, FALSE, TRUE, TRUE, Conf(50)),  DepBlock("MEDIUM", TRUE, -Conf(50)), FALSE)

LLMContextualAnswers == {LLMRaise, LLMGarbage} \cup LLMWellFormed \cup LLMMalformed

(* ---------------------------------------------------------- RiskCalculator *)
\* d.get(k, default) of a dict d
DictGet(d, k, default) == IF k \in DOMAIN d THEN d[k] ELSE default

_fallback_keyword_analysis(message_text) ==
    LET keyword_match == \E i \in 1..Len(suicidal_patterns) :
                            re_search(suicidal_patterns[i], message_text)
    IN [ suicidal_ideation |->
            [present |-> keyword_match, is_literal |-> None,
             confidence |-> IF keyword_match THEN Conf(30) ELSE 0,
             reasoning |-> "LLM unavailable, using keyword fallback - requires human review"],
         depression_indicators |->
            [severity_estimate |-> "LOW", confidence |-> 0],
         sarcasm |-> FALSE,
         requires_human_review |-> TRUE ]

_validate_llm_response(answer) ==
    /\ answer.keys_ok
    /\ answer.si.present_is_bool
    /\ answer.si.conf_is_num
    /\ 0 <= answer.si.confidence /\ answer.si.confidence <= Unit

\* the history-depth factor shared by both blocks of _calibrate_confidence
HistoryFactor(raw_conf, history_len) ==
    Min(IF history_len < 3 THEN Times(raw_conf, 8)
        ELSE IF history_len >= 10 THEN Times(raw_conf, 11)
        ELSE raw_conf, Unit)

\* _calibrate_confidence on a validated answer, as the analysis dict
_calibrate_confidence(answer, context) ==
    LET history_len == Len(context.conversation_history)
        c1 == HistoryFactor(answer.si.confidence, history_len)
        baseline == context.student_info.baseline_profile
        c2 == Min(IF "typical_sentiment" \in baseline THEN Times(c1, 11) ELSE c1, Unit)
        c3 == Min(IF ~answer.si.is_literal \/ answer.sarcasm THEN Times(c2, 9) ELSE c2, Unit)
        c4 == Min(IF context.safety_flags # <<>> /\ answer.si.present
                  THEN Times(c3, 11) ELSE c3, Unit)
    IN [ suicidal_ideation |->
            [present |-> answer.si.present, is_literal |-> Some(answer.si.is_literal),
             confidence |-> c4, reasoning |-> "llm"],
         depression_indicators |->
            [severity_estimate |-> answer.dep.severity_estimate,
             confidence |-> HistoryFactor(answer.dep.confidence, history_len)],
         sarcasm |-> answer.sarcasm,
         requires_human_review |-> FALSE ]

\* _analyze_contextual_risk with the collaborator's answer to this call.
\* A non-numeric depression confidence makes _calibrate_confidence raise
\* TypeError, which the outer except turns into the fallback.
_analyze_contextual_risk(message_text, context, answer) ==
    IF answer.kind = "raise" THEN _fallback_keyword_analysis(message_text)
    ELSE IF answer.kind = "text" THEN _fallback_keyword_analysis(message_text)
    ELSE IF ~_validate_llm_response(answer) THEN _fallback_keyword_analysis(message_text)
    ELSE IF ~answer.dep.conf_is_num THEN _fallback_keyword_analysis(message_text)
    ELSE _calibrate_confidence(answer, context)

\* the factor _assess_suicidal_ideation builds from a contextual analysis
SIFromAnalysis(llm_analysis) ==
    IF ~llm_analysis.suicidal_ideation.present
    THEN [factor |-> None, llm_called |-> TRUE]
    ELSE [factor |-> Some([present |-> TRUE,
                           confidence |-> llm_analysis.suicidal_ideation.confidence,
                           reason |-> llm_analysis.suicidal_ideation.reasoning,
                           is_literal |-> llm_analysis.suicidal_ideation.is_literal,
                           requires_human_review |-> llm_analysis.requires_human_review]),
          llm_called |-> TRUE]

\* _assess_suicidal_ideation: the factor dict (or None) and whether the
\* collaborator was called
_assess_suicidal_ideation(message_text, context, answer) ==
    IF /\ context.crisis_detected \/ context.safety_flags # <<>>
       /\ \/ context.crisis_detected
          \/ SelectIdx(context.safety_flags,
                LAMBDA f : f[1] \in {"crisis_keyword", "plan_indicator"}) # {}
    THEN [factor |-> Some([present |-> TRUE, confidence |-> Conf(95),
                           reason |-> "Crisis keywords detected in safety screen"]),
          llm_called |-> FALSE]
    ELSE IF DictGet(context.current_risk_profile, "cssrs_score", 0) > 0
    THEN [factor |-> Some([present |-> TRUE, confidence |-> Conf(95),
                           reason |-> "Validated C-SSRS score"]),
          llm_called |-> FALSE]
    ELSE SIFromAnalysis(_analyze_contextual_risk(message_text, context, answer))

\* the PHQ-9 estimate for a contextual severity estimate
severity_map(severity_estimate) ==
    IF severity_estimate = "MEDIUM" THEN 10
    ELSE IF severity_estimate = "HIGH" THEN 15
    ELSE 5

\* the factor _assess_depression_severity builds from a contextual analysis
\* (priority 2), else from the concern indicators of the context (priority 3)
DepFromAnalysis(dep_analysis, context) ==
    IF dep_analysis.severity_estimate # "LOW"
    THEN [factor |-> Some([estimated_phq9 |-> severity_map(dep_analysis.severity_estimate),
                           confidence |-> Times(dep_analysis.confidence, 7),
                           reason |-> "LLM contextual analysis",
                           is_estimate |-> TRUE]),
          llm_called |-> TRUE]
    ELSE IF {"sleep_issues", "low_energy"} \subseteq DictGet(context, "concern_indicators", {})
    THEN [factor |-> Some([estimated_phq9 |-> 11, confidence |-> Conf(40),
                           reason |-> "Mentioned sleep issues and low energy",
                           is_estimate |-> TRUE, requires_assessment |-> TRUE]),
          llm_called |-> TRUE]
    ELSE [factor |-> None, llm_called |-> TRUE]

\* _assess_depression_severity; latest_assessment is the latest PHQ9 row
\* on file (or None)
_assess_depression_severity(latest_assessment, message_text, context, answer) ==
    IF IsSome(latest_assessment)
    THEN [factor |-> Some([estimated_phq9 |-> Get(latest_assessment).score,
                           confidence |-> Conf(90),
                           reason |-> "Based on validated PHQ-9 assessment"]),
          llm_called |-> FALSE]
    ELSE DepFromAnalysis(
            _analyze_contextual_risk(message_text, context, answer).depression_indicators,
            context)

\* _assess_behavior_change: engagement_drop_percentage in millionths
_assess_behavior_change(context) ==
    LET engagement_drop == DictGet(context.behavioral_metadata,
                                   "engagement_drop_percentage", 0)
    IN IF engagement_drop > Conf(60)
       THEN Some([concern |-> "HIGH", confidence |-> Conf(88), reason |-> "engagement"])
       ELSE IF engagement_drop > Conf(30)
       THEN Some([concern |-> "MEDIUM", confidence |-> Conf(75), reason |-> "engagement"])
       ELSE None

\* whether temporal_patterns["pattern_details"].get(name) is truthy
PatternFlag(temporal_patterns, name) ==
    /\ "pattern_details" \in DOMAIN temporal_patterns
    /\ temporal_patterns.pattern_details[name]

\* risk code of a depression factor (0: none appended)
DepressionCode(phq9) ==
    IF phq9 >= 20 THEN 4 ELSE IF phq9 >= 15 THEN 3 ELSE IF phq9 >= 10 THEN 2 ELSE 0

\* risk code of a behaviour-change factor (0: none appended)
BehaviorCode(concern) ==
    IF concern = "HIGH" THEN 3 ELSE IF concern = "MEDIUM" THEN 2 ELSE 0

\* levels whose thresholds are one code too low
LevelOfShifted(max_risk) ==
    IF max_risk >= 3 THEN "CRISIS"
    ELSE IF max_risk >= 2 THEN "HIGH"
    ELSE "MEDIUM"

\* the level of a maximum risk code
LevelOf(max_risk) ==
    IF max_risk >= 4 THEN "CRISIS"
    ELSE IF max_risk >= 3 THEN "HIGH"
    ELSE IF max_risk >= 2 THEN "MEDIUM"
    ELSE "LOW"

\* risk scores where suicidal ideation counts only from confidence 0.5 on
ScoresOfConfidentIdeation(risk_factors, temporal_patterns) ==
    LET si  == risk_factors.suicidal_ideation
        dep == risk_factors.depression_severity
        beh == risk_factors.behavior_change
        snapshot == DictGet(temporal_patterns, "use_snapshot_only", FALSE)
    IN (IF IsSome(si) /\ Get(si).present /\ Get(si).confidence >= Conf(50)
        THEN <<4>> ELSE <<>>)
       \o (IF IsSome(dep) /\ DepressionCode(Get(dep).estimated_phq9) > 0
           THEN <<DepressionCode(Get(dep).estimated_phq9)>> ELSE <<>>)
       \o (IF IsSome(beh) /\ BehaviorCode(Get(beh).concern) > 0
           THEN <<BehaviorCode(Get(beh).concern)>> ELSE <<>>)
       \o (IF ~snapshot /\ PatternFlag(temporal_patterns, "rapid_deterioration")
           THEN <<3>> ELSE <<>>)
       \o (IF ~snapshot /\ PatternFlag(temporal_patterns, "pre_decision_calm")
           THEN <<4>> ELSE <<>>)
       \o (IF ~snapshot /\ PatternFlag(temporal_patterns, "chronic_elevated")
           THEN <<2>> ELSE <<>>)
       \o (IF ~snapshot /\ PatternFlag(temporal_patterns, "disengagement")
           THEN <<2>> ELSE <<>>)

\* risk_scores as _calculate_overall_risk appends them
risk_scores(risk_factors, temporal_patterns) ==
    LET si  == risk_factors.suicidal_ideation
        dep == risk_factors.depression_severity
        beh == risk_factors.behavior_change
        snapshot == DictGet(temporal_patterns, "use_snapshot_only", FALSE)
    IN (IF IsSome(si) /\ Get(si).present THEN <<4>> ELSE <<>>)
       \o (IF IsSome(dep) /\ DepressionCode(Get(dep).estimated_phq9) > 0
           THEN <<DepressionCode(Get(dep).estimated_phq9)>> ELSE <<>>)
       \o (IF IsSome(beh) /\ BehaviorCode(Get(beh).concern) > 0
           THEN <<BehaviorCode(Get(beh).concern)>> ELSE <<>>)
       \o (IF ~snapshot /\ PatternFlag(temporal_patterns, "rapid_deterioration")
           THEN <<3>> ELSE <<>>)
       \o (IF ~snapshot /\ PatternFlag(temporal_patterns, "pre_decision_calm")
           THEN <<4>> ELSE <<>>)
       \o (IF ~snapshot /\ PatternFlag(temporal_patterns, "chronic_elevated")
           THEN <<2>> ELSE <<>>)
       \o (IF ~snapshot /\ PatternFlag(temporal_patterns, "disengagement")
           THEN <<2>> ELSE <<>>)

\* confidence_scores as _calculate_overall_risk appends them
confidence_scores(risk_factors, temporal_patterns) ==
    LET si  == risk_factors.suicidal_ideation
        dep == risk_factors.depression_severity
        beh == risk_factors.behavior_change
        snapshot == DictGet(temporal_patterns, "use_snapshot_only", FALSE)
    IN (IF IsSome(si) /\ Get(si).present THEN <<Get(si).confidence>> ELSE <<>>)
       \o (IF IsSome(dep) THEN <<Get(dep).confidence>> ELSE <<>>)
       \o (IF IsSome(beh) THEN <<Get(beh).confidence>> ELSE <<>>)
       \o (IF ~snapshot /\ PatternFlag(temporal_patterns, "rapid_deterioration")
           THEN <<DictGet(temporal_patterns, "velocity_confidence", Conf(80))>> ELSE <<>>)
       \o (IF ~snapshot /\ PatternFlag(temporal_patterns, "pre_decision_calm")
           THEN <<Conf(95)>> ELSE <<>>)
       \o (IF ~snapshot /\ PatternFlag(temporal_patterns, "chronic_elevated")
           THEN <<Conf(70)>> ELSE <<>>)
       \o (IF ~snapshot /\ PatternFlag(temporal_patterns, "disengagement")
           THEN <<Conf(60)>> ELSE <<>>)

\* the pair _calculate_overall_risk returns for the two lists
OverallOf(scores, confs) ==
    IF scores = <<>>
    THEN [overall_risk |-> "LOW", confidence |-> FracOf(Conf(50))]
    ELSE [overall_risk |-> LevelOf(MaxSeq(scores)),
          confidence   |-> IF confs # <<>> THEN Frac(SumSeq(confs), Len(confs) * Unit)
                           ELSE FracOf(Conf(50))]

_calculate_overall_risk(risk_factors, temporal_patterns) ==
    OverallOf(risk_scores(risk_factors, temporal_patterns),
              confidence_scores(risk_factors, temporal_patterns))

_determine_action(overall_risk, confidence) ==
    IF overall_risk = "CRISIS" THEN "immediate_crisis_protocol"
    ELSE IF overall_risk = "HIGH" /\ FracGT(confidence, Conf(90)) THEN "immediate_alert"
    ELSE IF overall_risk = "HIGH" /\ FracLT(confidence, Conf(90)) THEN "human_review_queue"
    ELSE IF overall_risk = "MEDIUM" THEN "schedule_counselor_review_within_48h"
    ELSE "continue_monitoring"

_generate_alert_recommendation(overall_risk, confidence) ==
    IF overall_risk = "CRISIS"
    THEN [should_alert |-> TRUE, alert_type |-> "IMMEDIATE"]
    ELSE IF overall_risk = "HIGH" /\ FracGT(confidence, Conf(90))
    THEN [should_alert |-> TRUE, alert_type |-> "IMMEDIATE"]
    ELSE IF overall_risk = "HIGH" /\ FracLT(confidence, Conf(70))
    THEN [should_alert |-> TRUE, alert_type |-> "URGENT"]
    ELSE IF overall_risk = "MEDIUM"
    THEN [should_alert |-> TRUE, alert_type |-> "ROUTINE"]
    ELSE [should_alert |-> FALSE, alert_type |-> "NONE"]

(* -------------------------------------------------------- TemporalAnalyzer *)
\* the days kept by _get_risk_history
HistoryDays == 30

risk_map(overall_risk) ==
    IF overall_risk = "LOW" THEN 1
    ELSE IF overall_risk = "MEDIUM" THEN 2
    ELSE IF overall_risk = "HIGH" THEN 3
    ELSE IF overall_risk = "CRISIS" THEN 4
    ELSE 1

\* the history built from the selected rows
HistoryOf(rows) ==
    [i \in 1..Len(rows) |->
        [date |-> rows[i].calculated_at, risk_score |-> risk_map(rows[i].overall_risk)]]

\* rows are appended in the order of calculated_at, so the stored order is
\* the ascending order the query asks for
_get_risk_history(profiles, student_id, today) ==
    HistoryOf(SelectSeq(profiles,
                 LAMBDA r : r.student_id = student_id
                            /\ r.calculated_at >= today - HistoryDays))

\* score_change / total_days as the fraction [num, den], den > 0, not reduced
VelocityOf(score_change, total_days) ==
    IF total_days = 0 THEN [num |-> 0, den |-> 1]
    ELSE [num |-> score_change, den |-> total_days]

_calculate_velocity(history) ==
    IF Len(history) < 2 THEN [num |-> 0, den |-> 1]
    ELSE VelocityOf(history[Len(history)].risk_score - history[1].risk_score,
                    history[Len(history)].date - history[1].date)

\* (v2 - v1) / (total_days / 2) as a fraction
AccelerationOf(v1, v2, total_days) ==
    IF total_days = 0 THEN [num |-> 0, den |-> 1]
    ELSE [num |-> 2 * (v2.num * v1.den - v1.num * v2.den),
          den |-> v1.den * v2.den * total_days]

_calculate_acceleration(history) ==
    IF Len(history) < 3 THEN [num |-> 0, den |-> 1]
    ELSE AccelerationOf(
            _calculate_velocity(SubSeq(history, 1, (Len(history) \div 2) + 1)),
            _calculate_velocity(SubSeq(history, (Len(history) \div 2) + 1, Len(history))),
            history[Len(history)].date - history[1].date)

Scores(history) == [i \in 1..Len(history) |-> history[i].risk_score]

\* first_mean >= 3.0 and last_mean < 2.0 and first_mean - last_mean > 1.5,
\* on the sums s1, s2 and the lengths n1, n2 of the two parts
CalmTest(s1, n1, s2, n2) ==
    IF n1 = 0 \/ n2 = 0 THEN FALSE
    ELSE /\ s1 >= 3 * n1
         /\ s2 < 2 * n2
         /\ 2 * (s1 * n2 - s2 * n1) > 3 * n1 * n2

\* split_point = int(len(scores) * 0.7)
CalmSplit(scores, split_point) ==
    CalmTest(SumSeq(SubSeq(scores, 1, split_point)), split_point,
             SumSeq(SubSeq(scores, split_point + 1, Len(scores))), Len(scores) - split_point)

\* the test on every series, short ones included
CalmWithoutMinimum(history) ==
    CalmSplit(Scores(history), (Len(history) * 7) \div 10)

_detect_pre_decision_calm(history) ==
    IF Len(history) < 5 THEN FALSE
    ELSE CalmSplit(Scores(history), (Len(history) * 7) \div 10)

SignChanges(differences) ==
    Cardinality({i \in 1..(Len(differences) - 1) :
                    (differences[i] > 0) # (differences[i + 1] > 0)})

_detect_cyclical_pattern(scores) ==
    IF Len(scores) < 6 THEN FALSE
    ELSE 2 * SignChanges([i \in 1..(Len(scores) - 1) |-> scores[i + 1] - scores[i]])
            > Len(scores)

\* late_freq < early_freq * 0.5 for the counts and the period lengths
FrequencyDrop(early_count, late_count, early_period_days, late_period_days) ==
    IF early_period_days = 0 \/ late_period_days = 0 THEN FALSE
    ELSE 2 * late_count * early_period_days < early_count * late_period_days

\* dates are whole days; mid_date is start_date plus total_days / 2 days
DisengagementOf(start_date, dates, total_days, early_count) ==
    IF total_days = 0 THEN FALSE
    ELSE FrequencyDrop(early_count, Len(dates) - early_count,
                       total_days \div 2, total_days \div 2)

_detect_disengagement(start_date, dates) ==
    IF Len(dates) < 3 THEN FALSE
    ELSE DisengagementOf(start_date, dates, dates[Len(dates)] - start_date,
            Cardinality({i \in 1..Len(dates) :
                2 * (dates[i] - start_date) < dates[Len(dates)] - start_date}))

\* mean_score > 2.5 and std_score < 0.5 for n scores, their sum and the sum
\* of their squares
ChronicElevated(n, total, squares) ==
    /\ 2 * total > 5 * n
    /\ 4 * (n * squares - total * total) < n * n

PatternsOf(history, scores, velocity, acceleration) ==
    [ rapid_deterioration |-> /\ 2 * velocity.num < -velocity.den
                              /\ acceleration.num < 0,
      pre_decision_calm   |-> _detect_pre_decision_calm(history),
      chronic_elevated    |-> ChronicElevated(Len(scores), SumSeq(scores),
                                 SumSeq([i \in 1..Len(scores) |-> scores[i] * scores[i]])),
      cyclical            |-> _detect_cyclical_pattern(scores),
      disengagement       |-> _detect_disengagement(history[1].date,
                                 [i \in 1..Len(history) |-> history[i].date]) ]

_detect_patterns(history, velocity, acceleration) ==
    PatternsOf(history, Scores(history), velocity, acceleration)

\* the product of the multipliers of the patterns that are set: 2.0, 3.0,
\* 1.5 = 3/2 and 1.3 = 13/10, over the common denominator 2 * 10
_calculate_risk_multiplier(patterns) ==
    Frac((IF patterns.rapid_deterioration THEN 2 ELSE 1)
            * (IF patterns.pre_decision_calm THEN 3 ELSE 1)
            * (IF patterns.chronic_elevated THEN 3 ELSE 2)
            * (IF patterns.disengagement THEN 13 ELSE 10),
         20)

\* list(patterns.keys()): the keys of the dict, in insertion order
PatternNames ==
    << "rapid_deterioration", "pre_decision_calm", "chronic_elevated",
       "cyclical", "disengagement" >>

\* the dict analyze_trajectory returns for a history
TrajectoryOf(history) ==
    IF Len(history) < 3
    THEN [patterns |-> <<>>, velocity |-> [num |-> 0, den |-> 1],
          acceleration |-> [num |-> 0, den |-> 1]]
    ELSE [patterns |-> PatternNames,
          pattern_details |-> _detect_patterns(history, _calculate_velocity(history),
                                               _calculate_acceleration(history)),
          velocity |-> _calculate_velocity(history),
          acceleration |-> _calculate_acceleration(history),
          risk_multiplier |-> _calculate_risk_multiplier(
                                 _detect_patterns(history, _calculate_velocity(history),
                                                  _calculate_acceleration(history)))]

analyze_trajectory(profiles, student_id, today) ==
    TrajectoryOf(_get_risk_history(profiles, student_id, today))

(* ------------------------------------------------------------------ state *)
VARIABLES
    students,          \* students table: student_id -> row (exists says whether the row is there)
    risk_profiles,     \* risk_profiles table, in insertion order
    assessments,       \* assessments table (PHQ9 rows), in insertion order
    alerts,            \* alerts table, in insertion order
    message_analyses,  \* message_analyses table (the audit log), in insertion order
    sessions,          \* sessions table, in insertion order
    now,               \* the clock, in days
    requests,          \* how many requests the endpoint has served
    last,              \* what the last call of /api/messages/process did and returned
    calc_in,           \* arguments of a direct call of calculate_risk
    calc_out,          \* what the call did and returned
    risk_in,           \* arguments of direct calls of _calculate_overall_risk
    risk_out,          \* their results
    gate_in,           \* arguments of a direct call of _checkpoint_5_response_gating
    gate_out,          \* its result
    feedback,          \* counselor_feedback table: rows older than the metrics window
                       \* (their number) and the rows inside it, in insertion order
    current_thresholds,\* current_thresholds of an AdaptiveSensitivityService instance
    calibrations,      \* threshold_calibrations table, in insertion order
    trajectory,        \* history and result of a direct analysis of a risk-score series
    inflight,          \* the requests in flight, one per student: how far each has got
                       \* and what it has read so far
    adjusted           \* what the last call of adjust_thresholds did and returned

vars == << students, risk_profiles, assessments, alerts, message_analyses,
           sessions, now, requests, last, calc_in, calc_out, risk_in, risk_out,
           gate_in, gate_out, feedback, current_thresholds, calibrations, adjusted,
           trajectory, inflight >>

\* the variables of the direct calls
calls == << calc_in, calc_out, risk_in, risk_out, gate_in, gate_out >>

\* the variables of the learning services
learning == << feedback, current_thresholds, calibrations, adjusted >>

(* ------------------------------------------------- persistence faults, inputs *)
\* the database operation of a request that raises, if any:
\*   context_read   a query of _get_student_info / _get_conversation_history
\*   risk_read      the query of get_current_risk_profile
\*   calc_read      the risk-history query at the start of calculate_risk
\*   profile_write  a commit of _save_risk_profile
\*   session_write  a commit of _save_to_session
\*   log_write      the commit of _log_processing
\*   alert_write    the commit of the alert in the endpoint
Faults ==
    { "none", "context_read", "risk_read", "calc_read", "profile_write",
      "session_write", "log_write", "alert_write" }

\* answers of the collaborator to the emoji prompt and to the concern prompt
EmojiAnswers == { "raise", "distress" }
ConcernAnswers == { "raise", "hopelessness" }

(* ---------------------------------------------------- SequentialProcessor *)
crisis_protocol_message ==
    "I'm concerned about your safety. Please reach out for immediate help:\n\nCrisis Text Line: Text HOME to 741741\nNational Suicide Prevention Lifeline: 988\nCampus Counseling: [CAMPUS_NUMBER]\n\nI'm here to support you, and professional help is available right now."
counseling_note == "\n\nI'm here to support you. Would you like me to connect you with a counselor?"

_get_student_info(student_id) ==
    IF students[student_id].exists
    THEN [session_count |-> students[student_id].session_count,
          baseline_profile |-> students[student_id].baseline_profile]
    ELSE [session_count |-> 0, baseline_profile |-> {}]

\* the last `limit` audit rows of the student, oldest first
_get_conversation_history(student_id, limit) ==
    LET rows == SelectSeq(message_analyses, LAMBDA r : r.student_id = student_id)
        first == IF Len(rows) > limit THEN Len(rows) - limit + 1 ELSE 1
    IN [i \in 1..(Len(rows) - first + 1) |-> [message_text |-> rows[first + i - 1].message_text]]

_get_behavioral_metadata(student_id) == <<>>

\* the returned dict has the keys overall_risk, confidence, risk_factors and
\* calculated_at; a failing query is caught and gives the empty dict
get_current_risk_profile(student_id, fault) ==
    LET rows == SelectSeq(risk_profiles, LAMBDA r : r.student_id = student_id)
    IN IF fault = "risk_read" \/ rows = <<>> THEN <<>>
       ELSE [overall_risk  |-> rows[Len(rows)].overall_risk,
             calculated_at |-> rows[Len(rows)].calculated_at]

_get_latest_assessment(student_id, assessment_type) ==
    LET rows == SelectSeq(assessments,
                   LAMBDA r : r.student_id = student_id /\ r.assessment_type = assessment_type)
    IN IF rows = <<>> THEN None ELSE Some(rows[Len(rows)])

_checkpoint_1_safety_screen(message) ==
    LET result == screen_immediate(message.message_text)
    IN [name |-> "IMMEDIATE_SAFETY_SCREEN", passed |-> ~result.crisis_detected,
        result |-> result]

\* the context of checkpoint 2 (its reads may raise: see ProcessMessage)
_checkpoint_2_context_enrichment(message, checkpoint1_result, fault) ==
    [ student_info         |-> _get_student_info(message.student_id),
      conversation_history |-> _get_conversation_history(message.student_id, 10),
      behavioral_metadata  |-> _get_behavioral_metadata(message.student_id),
      current_risk_profile |-> get_current_risk_profile(message.student_id, fault),
      safety_flags         |-> checkpoint1_result.result.flags,
      crisis_detected      |-> checkpoint1_result.result.crisis_detected ]

\* a checkpoint 3 that reports passed whether or not the generation failed
GenerationAlwaysPassed(reply) ==
    [name |-> "LLM_GENERATION", passed |-> TRUE,
     response |-> IF IsSome(reply) THEN Some(filter_response(Get(reply))) ELSE None]

\* reply is None when llm.generate raises
_checkpoint_3_llm_generation(reply) ==
    IF IsSome(reply)
    THEN [name |-> "LLM_GENERATION", passed |-> TRUE,
          response |-> Some(filter_response(Get(reply)))]
    ELSE [name |-> "LLM_GENERATION", passed |-> FALSE, response |-> None]

\* llm_response or ""
OrEmpty(llm_response) == IF IsSome(llm_response) THEN Get(llm_response) ELSE ""

\* a gating that sends the crisis protocol for CRISIS only, whatever the
\* confidence of a HIGH profile
GatingBranchCrisisOnly(overall_risk, confidence) ==
    IF overall_risk = "CRISIS" THEN "crisis_protocol"
    ELSE IF overall_risk \in {"MEDIUM", "HIGH"} THEN "counseling"
    ELSE "as_is"

\* the branch checkpoint 5 takes for a risk level and a confidence
GatingBranch(overall_risk, confidence) ==
    IF overall_risk = "CRISIS" \/ (overall_risk = "HIGH" /\ FracGT(confidence, Conf(90)))
    THEN "crisis_protocol"
    ELSE IF overall_risk = "MEDIUM" \/ (overall_risk = "HIGH" /\ FracLT(confidence, Conf(90)))
    THEN "counseling"
    ELSE "as_is"

\* the result dict of checkpoint 5 for the branch taken
GateResult(branch, llm_response, overall_risk) ==
    IF branch = "crisis_protocol"
    THEN [final_response |-> Some(crisis_protocol_message), response_sent |-> TRUE,
          crisis_triggered |-> TRUE, gating_decision |-> overall_risk]
    ELSE IF branch = "counseling"
    THEN [final_response |-> Some(OrEmpty(llm_response) \o counseling_note),
          response_sent |-> TRUE, crisis_triggered |-> FALSE,
          gating_decision |-> overall_risk]
    ELSE [final_response |-> llm_response, response_sent |-> TRUE,
          crisis_triggered |-> FALSE, gating_decision |-> overall_risk]

\* the result of checkpoint 5; risk_profile is the dict of checkpoint 4
_checkpoint_5_response_gating(llm_response, risk_profile) ==
    GateResult(GatingBranch(DictGet(risk_profile, "overall_risk", "LOW"),
                            DictGet(risk_profile, "confidence", FracOf(0))),
               llm_response, DictGet(risk_profile, "overall_risk", "LOW"))

(* ------------------------------------------------ RiskCalculator.calculate_risk *)
\* how a contextual answer is classed in the record of a call
AnswerClass(answer) ==
    IF answer.kind = "raise" THEN "raise"
    ELSE IF answer.kind = "text" THEN "unparsable"
    ELSE IF answer \in LLMMalformed THEN "invalid"
    ELSE "valid"

\* calculate_risk raises
CalcFailure(cause, rolled_back, si_llm, dep_llm) ==
    [raised |-> TRUE, cause |-> cause, rolled_back |-> rolled_back,
     result |-> None, row |-> None, si_llm |-> si_llm, dep_llm |-> dep_llm]

\* the tail of calculate_risk, from the RiskProfile on: validation of the
\* profile, _save_risk_profile (which may fail and roll back), the result
SaveAndReturn(student_id, fault, temporal_patterns, risk_factors, overall, si_llm, dep_llm) ==
    IF ~FracIn01(overall.confidence) THEN CalcFailure("validation", FALSE, si_llm, dep_llm)
    ELSE IF fault = "profile_write" THEN CalcFailure("write", TRUE, si_llm, dep_llm)
    ELSE [raised |-> FALSE, cause |-> "none", rolled_back |-> FALSE,
          result |-> Some(
             [overall_risk |-> overall.overall_risk,
              confidence |-> overall.confidence,
              risk_factors |->
                 [suicidal_ideation   |-> risk_factors.suicidal_ideation,
                  depression_severity |-> risk_factors.depression_severity,
                  behavior_change     |-> risk_factors.behavior_change],
              recommended_action |-> _determine_action(overall.overall_risk, overall.confidence),
              temporal_patterns |-> temporal_patterns.patterns,
              alert_recommendation |->
                 _generate_alert_recommendation(overall.overall_risk, overall.confidence)]),
          row |-> Some([student_id |-> student_id,
                        overall_risk |-> overall.overall_risk,
                        recommended_action |->
                            _determine_action(overall.overall_risk, overall.confidence),
                        calculated_at |-> now]),
          si_llm |-> si_llm, dep_llm |-> dep_llm]

\* calculate_risk from the validated RiskFactors on
FromRiskFactors(student_id, fault, temporal_patterns, risk_factors, si_llm, dep_llm) ==
    IF ~risk_factors.ok THEN CalcFailure("validation", FALSE, si_llm, dep_llm)
    ELSE SaveAndReturn(student_id, fault, temporal_patterns, risk_factors,
                       _calculate_overall_risk(risk_factors, temporal_patterns),
                       si_llm, dep_llm)

\* calculate_risk from the three assessed factors on
FromFactors(student_id, fault, temporal_patterns, si, dep, beh, si_answer, dep_answer) ==
    FromRiskFactors(student_id, fault, temporal_patterns,
                    RiskFactors(si.factor, dep.factor, beh),
                    IF si.llm_called THEN AnswerClass(si_answer) ELSE "none",
                    IF dep.llm_called THEN AnswerClass(dep_answer) ELSE "none")

\* The outcome of calculate_risk(student_id, message_text, context, ...):
\*   raised / cause   whether it raises, and from where
\*   rolled_back      whether _save_risk_profile rolled the transaction back
\*   result           the returned dict (None when it raises)
\*   row              the risk_profiles row it committed (None when none)
\*   si_llm, dep_llm  how the collaborator answered each contextual call
\*                    ("none": the call was not made)
\* si_answer and dep_answer are the collaborator's answers to the two calls
\* of _analyze_contextual_risk; CalculateFrom is calculate_risk from its two
\* reads (the trajectory and the latest PHQ-9 row) on.
CalculateFrom(student_id, message_text, context, si_answer, dep_answer, fault, temporal_patterns, latest_assessment) ==
    IF fault = "calc_read" THEN CalcFailure("read", FALSE, "none", "none")
    ELSE FromFactors(student_id, fault, temporal_patterns,
            _assess_suicidal_ideation(message_text, context, si_answer),
            _assess_depression_severity(latest_assessment, message_text, context,
                                        dep_answer),
            _assess_behavior_change(context),
            si_answer, dep_answer)

calculate_risk(student_id, message_text, context, si_answer, dep_answer, fault) ==
    CalculateFrom(student_id, message_text, context, si_answer, dep_answer, fault,
                  analyze_trajectory(risk_profiles, student_id, now),
                  _get_latest_assessment(student_id, "PHQ9"))

(* ------------------------------------- SequentialProcessor.process_message *)
NoStudent ==
    [exists |-> FALSE, session_count |-> 0, baseline_profile |-> {},
     last_checkpoint_date |-> None]

\* _ensure_student_exists on a students table
_ensure_student_exists(table, student_id) ==
    IF table[student_id].exists THEN table
    ELSE [table EXCEPT ![student_id] =
            [exists |-> TRUE, session_count |-> 0, baseline_profile |-> {},
             last_checkpoint_date |-> None]]

\* calculate_risk did not run
NoCalc ==
    [raised |-> FALSE, cause |-> "not_called", rolled_back |-> FALSE,
     result |-> None, row |-> None, si_llm |-> "none", dep_llm |-> "none"]

\* the tables after calculate_risk: _save_risk_profile commits the student
\* row (if missing) and the profile row, or nothing when it raises
StudentsAfterCalc(table, calc, student_id) ==
    IF IsSome(calc.row) THEN _ensure_student_exists(table, student_id) ELSE table

\* a save that keeps one row per student: the student's stored rows are
\* replaced by the new one
ProfilesReplaced(calc) ==
    IF IsSome(calc.row)
    THEN Append(SelectSeq(risk_profiles,
                          LAMBDA r : r.student_id # Get(calc.row).student_id),
                Get(calc.row))
    ELSE risk_profiles

ProfilesAfterCalc(calc) ==
    IF IsSome(calc.row) THEN Append(risk_profiles, Get(calc.row)) ELSE risk_profiles

\* a crisis response that is gated on the risk profile: without a profile
\* nothing is sent
CrisisResponseFromProfile(message, checkpoint_results, risk_profile) ==
    [ student_id |-> message.student_id,
      message_text |-> message.message_text,
      checkpoint_results |-> checkpoint_results,
      concern_indicators |-> <<>>,
      safety_flags |-> <<>>,
      risk_profile |-> risk_profile,
      response_generated |-> IsSome(risk_profile),
      response_text |-> IF IsSome(risk_profile) THEN Some(crisis_protocol_message) ELSE None,
      crisis_protocol_triggered |-> IsSome(risk_profile) ]

_create_crisis_response(message, checkpoint_results, risk_profile) ==
    [ student_id |-> message.student_id,
      message_text |-> message.message_text,
      checkpoint_results |-> checkpoint_results,
      concern_indicators |-> <<>>,
      safety_flags |-> <<>>,
      risk_profile |-> risk_profile,
      response_generated |-> TRUE,
      response_text |-> Some(crisis_protocol_message),
      crisis_protocol_triggered |-> TRUE ]

\* EmojiAnalyzer.analyze: the students table after _update_baseline
\* (a raising collaborator gives the default analysis and no update)
StudentsAfterEmoji(table, student_id, emoji) ==
    IF emoji # "raise" /\ table[student_id].exists
    THEN [table EXCEPT ![student_id].baseline_profile = @ \cup {"emoji_baseline"}]
    ELSE table

_extract_concern_indicators(emoji, concern) ==
    (IF emoji = "distress" THEN <<"genuine_distress_emoji">> ELSE <<>>)
    \o (IF concern = "hopelessness" THEN <<"hopelessness_themes">> ELSE <<>>)

\* _get_or_create_session followed by the append of _save_to_session:
\* session_id 0 stands for None
SessionsAfterSave(message, analysis) ==
    LET senders == IF IsSome(analysis.response_text) /\ Get(analysis.response_text) # ""
                   THEN <<"user", "haven">> ELSE <<"user">>
        found == /\ message.session_id \in 1..Len(sessions)
                 /\ sessions[message.session_id].student_id = message.student_id
    IN IF found
       THEN [sessions EXCEPT ![message.session_id].messages = @ \o senders]
       ELSE Append(sessions,
               [student_id |-> message.student_id,
                session_number |-> students[message.student_id].session_count + 1,
                messages |-> senders])

StudentsAfterSave(table, message) ==
    LET found == /\ message.session_id \in 1..Len(sessions)
                 /\ sessions[message.session_id].student_id = message.student_id
        ensured == _ensure_student_exists(table, message.student_id)
    IN IF found THEN ensured
       ELSE [ensured EXCEPT ![message.student_id].session_count = @ + 1]

\* one call made by process_message: the method called and the safety flags
\* in the argument it is given (the checkpoint-1 result for checkpoint 2, the
\* context for checkpoints 3 and 4 and for calculate_risk; none otherwise)
Call(op, safety_flags) == [op |-> op, safety_flags |-> safety_flags]

\* the calls of lines 31 and 41 / 75: the safety screen, then the enrichment
StepsToContext(checkpoint1_result) ==
    << Call("_checkpoint_1_safety_screen", <<>>),
       Call("_checkpoint_2_context_enrichment", checkpoint1_result.result.flags) >>

\* the calls of the crisis branch, lines 31-56
StepsOfCrisis(checkpoint1_result, context) ==
    StepsToContext(checkpoint1_result)
    \o << Call("calculate_risk", context.safety_flags) >>

\* the calls of the normal branch up to checkpoint 4, lines 31-85 and 266
StepsToAnalysis(checkpoint1_result, context) ==
    StepsToContext(checkpoint1_result)
    \o << Call("_checkpoint_3_llm_generation", context.safety_flags),
          Call("_checkpoint_4_deep_analysis", context.safety_flags),
          Call("calculate_risk", context.safety_flags) >>

\* the calls of the normal branch, lines 31-93
StepsOfNormal(checkpoint1_result, context) ==
    StepsToAnalysis(checkpoint1_result, context)
    \o << Call("_checkpoint_5_response_gating", <<>>) >>

\* what process_message leaves behind: outcome ("returned" or "raised"), the
\* returned MessageAnalysis, the record of calculate_risk, the tables, and the
\* calls it made, in order
Run(outcome, analysis, calc, students_, risk_profiles_, message_analyses_, sessions_, steps) ==
    [outcome |-> outcome, analysis |-> analysis, calc |-> calc,
     students |-> students_, risk_profiles |-> risk_profiles_,
     message_analyses |-> message_analyses_, sessions |-> sessions_, steps |-> steps]

\* a checkpoint result; of its result dict the reply of LLM_GENERATION is
\* kept (None for the other checkpoints, and when the generation failed)
Checkpoint(name, passed, response) ==
    [name |-> name, passed |-> passed, response |-> response]

\* a crisis branch without the try around calculate_risk: a raising
\* calculate_risk propagates
CrisisBranchPropagating(message, checkpoint1_result, context, calc) ==
    IF calc.raised
    THEN Run("raised", None, calc, students, risk_profiles, message_analyses, sessions,
             StepsOfCrisis(checkpoint1_result, context))
    ELSE Run("returned",
             Some(_create_crisis_response(message,
                     << Checkpoint(checkpoint1_result.name, checkpoint1_result.passed, None),
                        Checkpoint("CONTEXT_ENRICHMENT", TRUE, None) >>,
                     calc.result)),
             calc,
             StudentsAfterCalc(students, calc, message.student_id),
             ProfilesAfterCalc(calc), message_analyses, sessions,
             StepsOfCrisis(checkpoint1_result, context))

\* the crisis branch after checkpoint 2; a raising calculate_risk is caught
\* and the profile stays None
CrisisBranch(message, checkpoint1_result, context, calc) ==
    Run("returned",
        Some(_create_crisis_response(message,
                << Checkpoint(checkpoint1_result.name, checkpoint1_result.passed, None),
                   Checkpoint("CONTEXT_ENRICHMENT", TRUE, None) >>,
                calc.result)),
        calc,
        StudentsAfterCalc(students, calc, message.student_id),
        ProfilesAfterCalc(calc), message_analyses, sessions,
        StepsOfCrisis(checkpoint1_result, context))

\* lines 95-127: the MessageAnalysis, _save_to_session, _log_processing
SaveAndLog(message, fault, calc, analysis, after_calc, steps) ==
    IF fault = "session_write"
    THEN Run("raised", None, calc, after_calc, ProfilesAfterCalc(calc),
             message_analyses, sessions, steps)
    ELSE IF fault = "log_write"
    THEN Run("raised", None, calc, StudentsAfterSave(after_calc, message),
             ProfilesAfterCalc(calc), message_analyses, SessionsAfterSave(message, analysis),
             steps)
    ELSE Run("returned", Some(analysis), calc, StudentsAfterSave(after_calc, message),
             ProfilesAfterCalc(calc),
             Append(message_analyses,
                [student_id |-> message.student_id, message_text |-> message.message_text,
                 checkpoints |-> Len(analysis.checkpoint_results)]),
             SessionsAfterSave(message, analysis), steps)

\* the MessageAnalysis of lines 98-119
BuildAnalysis(message, llm, checkpoint1_result, checkpoint3_result, checkpoint5_result, calc) ==
    [ student_id |-> message.student_id,
      message_text |-> message.message_text,
      checkpoint_results |->
         << Checkpoint(checkpoint1_result.name, checkpoint1_result.passed, None),
            Checkpoint("CONTEXT_ENRICHMENT", TRUE, None),
            Checkpoint(checkpoint3_result.name, checkpoint3_result.passed,
                       checkpoint3_result.response),
            Checkpoint("DEEP_ANALYSIS", TRUE, None),
            Checkpoint("RESPONSE_GATING", TRUE, None) >>,
      concern_indicators |-> _extract_concern_indicators(llm.emoji, llm.concern),
      safety_flags |-> checkpoint1_result.result.flags,
      risk_profile |-> calc.result,
      response_generated |-> checkpoint5_result.response_sent,
      response_text |-> checkpoint5_result.final_response,
      crisis_protocol_triggered |-> checkpoint5_result.crisis_triggered ]

\* lines 89-127, after checkpoint 4 returned
GateAndFinish(message, llm, fault, checkpoint1_result, context, checkpoint3_result, calc, after_emoji) ==
    SaveAndLog(message, fault, calc,
               BuildAnalysis(message, llm, checkpoint1_result, checkpoint3_result,
                  _checkpoint_5_response_gating(checkpoint3_result.response, Get(calc.result)),
                  calc),
               StudentsAfterCalc(after_emoji, calc, message.student_id),
               StepsOfNormal(checkpoint1_result, context))

\* lines 74-127: the normal branch after checkpoint 2; a raising
\* calculate_risk propagates
NormalBranch(message, llm, fault, checkpoint1_result, context, calc, after_emoji) ==
    IF calc.raised
    THEN Run("raised", None, calc, after_emoji, risk_profiles, message_analyses, sessions,
             StepsToAnalysis(checkpoint1_result, context))
    ELSE GateAndFinish(message, llm, fault, checkpoint1_result, context,
                       _checkpoint_3_llm_generation(llm.reply), calc, after_emoji)

\* process_message after checkpoint 1
AfterScreen(message, llm, fault, checkpoint1_result, context, calc) ==
    IF fault = "context_read"
    THEN Run("raised", None, NoCalc, students, risk_profiles, message_analyses, sessions,
             StepsToContext(checkpoint1_result))
    ELSE IF ~checkpoint1_result.passed
    THEN CrisisBranch(message, checkpoint1_result, context, calc)
    ELSE NormalBranch(message, llm, fault, checkpoint1_result, context, calc,
                      StudentsAfterEmoji(students, message.student_id, llm.emoji))

\* calculate_risk as process_message calls it, on the context of checkpoint 2
RiskOf(message, llm, fault, context) ==
    calculate_risk(message.student_id, message.message_text, context,
                   llm.si, llm.dep, fault)

\* process_message from the context of checkpoint 2 on
AfterContext(message, llm, fault, checkpoint1_result, context) ==
    AfterScreen(message, llm, fault, checkpoint1_result, context,
                RiskOf(message, llm, fault, context))

\* SequentialProcessor.process_message(message) with the collaborator's
\* answers llm = [reply, emoji, concern, si, dep] and the fault of this request
AfterCheckpoint1(message, llm, fault, checkpoint1_result) ==
    AfterContext(message, llm, fault, checkpoint1_result,
                 _checkpoint_2_context_enrichment(message, checkpoint1_result, fault))

process_message(message, llm, fault) ==
    AfterCheckpoint1(message, llm, fault, _checkpoint_1_safety_screen(message))

(* ------------------------------------------------ HybridAssessmentService *)
passive_monitoring_sessions == 3

checkpoint_interval_days == 30

\* last_checkpoint_date is a column of the student row that no code of the
\* repository writes; the clock is in days
_should_trigger_checkpoint(table, student_id) ==
    IF ~table[student_id].exists \/ ~IsSome(table[student_id].last_checkpoint_date)
    THEN TRUE
    ELSE now - Get(table[student_id].last_checkpoint_date) >= checkpoint_interval_days

get_assessment_tier(table, student_id) ==
    LET session_count == IF table[student_id].exists THEN table[student_id].session_count ELSE 0
    IN IF session_count < passive_monitoring_sessions THEN "TIER_1_PASSIVE"
       ELSE IF _should_trigger_checkpoint(table, student_id) THEN "TIER_2_CHECKPOINT"
       ELSE "TIER_3_CONTEXTUAL"

\* the keys track_passive_monitoring leaves in baseline_profile
track_passive_monitoring(table, student_id) ==
    [_ensure_student_exists(table, student_id) EXCEPT ![student_id].baseline_profile =
        @ \cup {"language_patterns", "humor_indicators", "mood_samples", "statistics"}]

(* --------------------------------------------- AdaptiveSensitivityService *)
\* thresholds are exact fractions [num, den]
INITIAL_THRESHOLDS ==
    [high_risk |-> Frac(7, 10), medium_risk |-> Frac(4, 10), minimum_confidence |-> Frac(5, 10)]
COLD_START_POLICY == "route_all_medium_plus_to_human"

CALIBRATION_THRESHOLDS ==
    [high_risk |-> Frac(75, 100), medium_risk |-> Frac(45, 100),
     minimum_confidence |-> Frac(6, 10)]
CALIBRATION_POLICY == "route_uncertain_to_human"

\* current_thresholds as __init__ sets it, from the settings
InitialThresholdSet ==
    [PHQ9 |-> Frac(10, 1), GAD7 |-> Frac(10, 1), confidence |-> Frac(7, 10),
     high_risk |-> INITIAL_THRESHOLDS.high_risk,
     medium_risk |-> INITIAL_THRESHOLDS.medium_risk,
     minimum_confidence |-> INITIAL_THRESHOLDS.minimum_confidence]

\* no feedback on file, a fresh service instance, no calibration recorded
NoLearning ==
    /\ feedback = [earlier |-> 0, rows |-> <<>>]
    /\ current_thresholds = InitialThresholdSet
    /\ calibrations = <<>>
    /\ adjusted = None

\* db.query(CounselorFeedback).count()
_get_feedback_count == feedback.earlier + Len(feedback.rows)

\* a phase rule whose first bound is inclusive
PhaseBoundInclusive(feedback_count) ==
    IF feedback_count <= 100 THEN "COLD_START"
    ELSE IF feedback_count < 500 THEN "CALIBRATION"
    ELSE "OPTIMIZATION"

\* the phase for a feedback count
PhaseOf(feedback_count) ==
    IF feedback_count < 100 THEN "COLD_START"
    ELSE IF feedback_count < 500 THEN "CALIBRATION"
    ELSE "OPTIMIZATION"

get_deployment_phase == PhaseOf(_get_feedback_count)

get_routing_policy ==
    IF get_deployment_phase = "COLD_START" THEN COLD_START_POLICY
    ELSE IF get_deployment_phase = "CALIBRATION" THEN CALIBRATION_POLICY
    ELSE "data_driven_routing"

\* get_threshold(threshold_type) of the instance
get_threshold(threshold_type) ==
    IF _get_feedback_count < 100 /\ threshold_type \in DOMAIN INITIAL_THRESHOLDS
    THEN INITIAL_THRESHOLDS[threshold_type]
    ELSE IF _get_feedback_count >= 100 /\ _get_feedback_count < 500
            /\ threshold_type \in DOMAIN CALIBRATION_THRESHOLDS
    THEN CALIBRATION_THRESHOLDS[threshold_type]
    ELSE DictGet(current_thresholds, threshold_type, Frac(5, 10))

\* calculate_performance_metrics on the rows inside the window: the counts
\* (the dict without them when there is no row)
calculate_performance_metrics(rows) ==
    LET true_positives ==
            Cardinality({ i \in 1..Len(rows) :
                rows[i].was_appropriate
                /\ rows[i].actual_severity \in {"Moderate", "Severe", "Crisis"} })
        false_positives ==
            Cardinality({ i \in 1..Len(rows) :
                ~rows[i].was_appropriate \/ rows[i].ai_accuracy = "over_flagged" })
        false_negatives ==
            Cardinality({ i \in 1..Len(rows) :
                rows[i].ai_accuracy = "missed_context"
                /\ rows[i].actual_severity \in {"Severe", "Crisis"} })
    IN IF rows = <<>> THEN [total |-> 0]
       ELSE [total |-> Len(rows), true_positives |-> true_positives,
             false_positives |-> false_positives, false_negatives |-> false_negatives,
             true_negatives |-> Len(rows) - true_positives - false_positives - false_negatives]

\* the thresholds adjust_thresholds changes, in the order of its loops
AdjustedTypes == << "PHQ9", "GAD7", "confidence" >>

\* value * n / d
Scale(value, n, d) == Frac(value.num * n, value.den * d)

\* an increase by a fifth
IncreasedByFifth(old_value) == Scale(old_value, 12, 10)

\* old_value * 1.1
Increased(old_value) == Scale(old_value, 11, 10)

\* old_value * 0.95
Decreased(old_value) == Scale(old_value, 95, 100)

\* false_positives > true_positives * 0.5
FalsePositiveRule(performance_metrics) ==
    2 * DictGet(performance_metrics, "false_positives", 0)
        > DictGet(performance_metrics, "true_positives", 0)

\* false_negatives > 0
FalseNegativeRule(performance_metrics) ==
    DictGet(performance_metrics, "false_negatives", 0) > 0

\* current_thresholds after the first loop, and after the second
AfterFirstLoop(thresholds, performance_metrics) ==
    IF FalsePositiveRule(performance_metrics)
    THEN [t \in DOMAIN thresholds |->
            IF \E i \in 1..Len(AdjustedTypes) : AdjustedTypes[i] = t
            THEN Increased(thresholds[t]) ELSE thresholds[t]]
    ELSE thresholds

AfterSecondLoop(thresholds, performance_metrics) ==
    IF FalseNegativeRule(performance_metrics)
    THEN [t \in DOMAIN thresholds |->
            IF \E i \in 1..Len(AdjustedTypes) : AdjustedTypes[i] = t
            THEN Decreased(thresholds[t]) ELSE thresholds[t]]
    ELSE thresholds

\* the adjustments dict, as the rows _record_calibration writes from it: the
\* entry of the first loop is kept when the second loop changes the same
\* threshold again
Adjustments(before, first, second, performance_metrics) ==
    IF FalsePositiveRule(performance_metrics)
    THEN [i \in 1..Len(AdjustedTypes) |->
            [threshold_type |-> AdjustedTypes[i], old_value |-> before[AdjustedTypes[i]],
             new_value |-> first[AdjustedTypes[i]], reason |-> "High false positive rate"]]
    ELSE IF FalseNegativeRule(performance_metrics)
    THEN [i \in 1..Len(AdjustedTypes) |->
            [threshold_type |-> AdjustedTypes[i], old_value |-> first[AdjustedTypes[i]],
             new_value |-> second[AdjustedTypes[i]], reason |-> "False negatives detected"]]
    ELSE <<>>

AdjustResult(before, first, second, performance_metrics) ==
    [before |-> before, after |-> second,
     adjustments |-> Adjustments(before, first, second, performance_metrics),
     false_positive_rule |-> FalsePositiveRule(performance_metrics),
     false_negative_rule |-> FalseNegativeRule(performance_metrics)]

AdjustFromFirst(thresholds, first, performance_metrics) ==
    AdjustResult(thresholds, first, AfterSecondLoop(first, performance_metrics),
                 performance_metrics)

\* adjust_thresholds(performance_metrics) on an instance whose
\* current_thresholds is thresholds: the thresholds before and after, the
\* adjustments returned, which rules fired
adjust_thresholds(thresholds, performance_metrics) ==
    AdjustFromFirst(thresholds, AfterFirstLoop(thresholds, performance_metrics),
                    performance_metrics)

\* _record_calibration: one threshold_calibrations row per adjustment
_record_calibration(adjustments) == calibrations \o adjustments

(* ------------------------------------------- POST /api/messages/process *)
\* the fault that strikes this request: a database operation that is not
\* reached cannot fail
Struck(run, fault, inserts_alert) ==
    IF fault \in {"context_read", "risk_read"} THEN fault
    ELSE IF fault = "calc_read" /\ run.calc.cause = "read" THEN fault
    ELSE IF fault = "profile_write" /\ run.calc.cause = "write" THEN fault
    ELSE IF fault \in {"session_write", "log_write"}
            /\ run.outcome = "raised" /\ ~run.calc.raised THEN fault
    ELSE IF fault = "alert_write" /\ inserts_alert THEN fault
    ELSE "none"

Idle ==
    [ student_id |-> "", message_text |-> "", fault |-> "none",
      crisis_detected |-> FALSE, outcome |-> "idle", status |-> 0,
      analysis |-> None, calc |-> [NoCalc EXCEPT !.result = None, !.row = None],
      steps |-> <<>>, alert |-> "none", tier |-> "none" ]

\* the alert the endpoint would insert for a returned analysis (None: no alert)
AlertFor(student_id, analysis) ==
    IF analysis.crisis_protocol_triggered
    THEN Some([student_id |-> student_id, alert_type |-> "IMMEDIATE",
               message |-> "Crisis protocol triggered - immediate intervention required",
               routing_status |-> "PENDING"])
    ELSE IF /\ IsSome(analysis.risk_profile)
            /\ Get(analysis.risk_profile).overall_risk \in {"HIGH", "CRISIS"}
    THEN Some([student_id |-> student_id, alert_type |-> "URGENT",
               message |-> "High risk detected: "
                           \o Get(analysis.risk_profile).overall_risk \o " risk level",
               routing_status |-> "PENDING"])
    ELSE None

\* a duplicate check that finds nothing
NoExistingAlert(alert) == FALSE

\* a duplicate check that does not look at the student
PendingAlertOfAnyone(alert) ==
    \E i \in 1..Len(alerts) :
        /\ alerts[i].message = alert.message
        /\ alerts[i].routing_status = "PENDING"

\* the duplicate check of the endpoint
ExistingAlert(alert) ==
    \E i \in 1..Len(alerts) :
        /\ alerts[i].student_id = alert.student_id
        /\ alerts[i].message = alert.message
        /\ alerts[i].routing_status = "PENDING"

\* the endpoint after process_message: alert is the alert wanted (or None),
\* existing whether the duplicate check found one, struck the fault that hit
Respond(message, run, alert, existing, struck, tier) ==
    /\ students' = IF run.outcome = "raised" \/ struck = "alert_write" THEN run.students
                   ELSE IF tier = "TIER_1_PASSIVE"
                   THEN track_passive_monitoring(run.students, message.student_id)
                   ELSE run.students
    /\ risk_profiles' = run.risk_profiles
    /\ message_analyses' = run.message_analyses
    /\ sessions' = run.sessions
    /\ alerts' = IF run.outcome = "returned" /\ IsSome(alert) /\ ~existing
                    /\ struck # "alert_write"
                 THEN Append(alerts, Get(alert))
                 ELSE alerts
    /\ last' = [ student_id |-> message.student_id,
                 message_text |-> message.message_text,
                 fault |-> struck,
                 crisis_detected |-> screen_immediate(message.message_text).crisis_detected,
                 outcome |-> run.outcome,
                 status |-> IF run.outcome = "raised" \/ struck = "alert_write"
                            THEN 500 ELSE 200,
                 analysis |-> run.analysis,
                 calc |-> [run.calc EXCEPT !.result = None, !.row = None],
                 steps |-> run.steps,
                 alert |-> IF run.outcome = "raised" \/ ~IsSome(alert) THEN "none"
                           ELSE IF existing THEN "suppressed"
                           ELSE IF struck = "alert_write" THEN "failed"
                           ELSE "created",
                 tier |-> IF run.outcome = "raised" \/ struck = "alert_write"
                          THEN "none" ELSE tier ]
    /\ UNCHANGED << assessments, now, calls, learning, trajectory >>

AfterProcess(message, fault, run, alert) ==
    Respond(message, run, alert,
            IsSome(alert) /\ ExistingAlert(Get(alert)),
            Struck(run, fault, IsSome(alert) /\ ~ExistingAlert(Get(alert))),
            get_assessment_tier(run.students, message.student_id))

Processed(message, fault, run) ==
    AfterProcess(message, fault, run,
                 IF run.outcome = "returned"
                 THEN AlertFor(message.student_id, Get(run.analysis)) ELSE None)

\* The whole handler: SequentialProcessor.process_message, the alert with
\* its duplicate check, the tier tracking; any exception becomes status 500.
HandleMessage(message, llm, fault) ==
    Processed(message, fault, process_message(message, llm, fault))

\* The collaborator's answers to one request, [reply, emoji, concern, si, dep]:
\* reply to the response prompt (None: the call raises), emoji and concern
\* to the two prompts of checkpoint 4, si and dep to the two contextual-risk
\* calls of calculate_risk.
Answers(reply, emoji, concern, si, dep) ==
    [reply |-> reply, emoji |-> emoji, concern |-> concern, si |-> si, dep |-> dep]

\* the collaborator answers every prompt and finds nothing
LLMCalm == Answers(Some("i hear you"), "distress", "hopelessness", LLMQuiet, LLMQuiet)

\* the pairs of answers to the two contextual-risk calls of one request
ContextualPairs ==
    { <<LLMRaise, LLMRaise>>, <<LLMQuiet, LLMQuiet>>, <<LLMQuiet, LLMModerate>>,
      <<LLMLiteral, LLMQuiet>>, <<LLMQuiet, LLMNegative>> }

ProcessMessage ==
    /\ requests < MaxRequests
    /\ requests' = requests + 1
    /\ \E student_id \in Students, message_text \in MessageTexts,
          session_id \in {0, Len(sessions)} :
          LET message == [student_id |-> student_id, message_text |-> message_text,
                          session_id |-> session_id]
          IN \/ \E fault \in Faults \ {"none"} : HandleMessage(message, LLMCalm, fault)
             \/ \E reply \in {None} \cup {Some(r) : r \in LLMReplies},
                   emoji \in EmojiAnswers, pair \in ContextualPairs :
                   HandleMessage(message,
                                 Answers(reply, emoji,
                                         IF emoji = "raise" THEN "raise" ELSE "hopelessness",
                                         pair[1], pair[2]), "none")
    /\ UNCHANGED inflight

\* a validated PHQ-9 result is put on file
PHQ9Scores == {17, 22}

RecordAssessment ==
    /\ Len(assessments) < MaxAssessments
    /\ \E student_id \in Students, score \in PHQ9Scores :
          assessments' = Append(assessments,
                            [student_id |-> student_id, assessment_type |-> "PHQ9",
                             score |-> score, administered_at |-> now])
    /\ UNCHANGED << students, risk_profiles, alerts, message_analyses, sessions, now,
                    requests, last, calls, learning, trajectory, inflight >>

\* the C-SSRS questions answered yes in one submission: none, or 1 and 2
CSSRSResponses == { {}, {1, 2} }

\* CSSRSService.score_cssrs: the score is the highest question answered yes
score_cssrs(responses) ==
    IF 5 \in responses THEN 5
    ELSE IF 4 \in responses THEN 4
    ELSE IF 3 \in responses THEN 3
    ELSE IF 2 \in responses THEN 2
    ELSE IF 1 \in responses THEN 1
    ELSE 0

\* CSSRSService.create_assessment_record on the assessments table
create_assessment_record(student_id, score) ==
    Append(assessments,
           [student_id |-> student_id, assessment_type |-> "C_SSRS",
            score |-> score, administered_at |-> now])

\* POST /api/assessments/cssrs/submit: the responses are scored and recorded
SubmitCSSRS ==
    /\ Len(assessments) < MaxAssessments
    /\ \E student_id \in Students, responses \in CSSRSResponses :
          assessments' = create_assessment_record(student_id, score_cssrs(responses))
    /\ UNCHANGED << students, risk_profiles, alerts, message_analyses, sessions, now,
                    requests, last, calls, learning, trajectory, inflight >>

Init ==
    /\ students = [s \in Students |-> NoStudent]
    /\ risk_profiles = <<>>
    /\ assessments = <<>>
    /\ alerts = <<>>
    /\ message_analyses = <<>>
    /\ sessions = <<>>
    /\ now = 0
    /\ requests = 0
    /\ last = Idle
    /\ calc_in = None /\ calc_out = None
    /\ risk_in = None /\ risk_out = None
    /\ gate_in = None /\ gate_out = None
    /\ NoLearning
    /\ inflight = None
    /\ trajectory = None

Next == ProcessMessage \/ RecordAssessment \/ SubmitCSSRS

Spec == Init /\ [][Next]_vars

(* --------------------------- direct calls of _checkpoint_5_response_gating *)
\* the confidences a risk profile is given: 0, 0.5, 0.7, 0.89, 0.9, 0.91, 0.95, 1
GateConfidences == { FracOf(Conf(p)) : p \in {0, 50, 70, 89, 90, 91, 95, 100} }

\* llm_response: None (checkpoint 3 failed) or a filtered reply
GateReplies == { None, Some("i hear you"), Some("[medical advice removed] and rest") }

GateInputs ==
    { [llm_response |-> r, risk_profile |-> [overall_risk |-> l, confidence |-> c]] :
         r \in GateReplies, l \in RiskLevels, c \in GateConfidences }

\* the store is empty and no request was served
EmptyStore ==
    /\ students = [s \in Students |-> NoStudent]
    /\ risk_profiles = <<>>
    /\ assessments = <<>>
    /\ alerts = <<>>
    /\ message_analyses = <<>>
    /\ sessions = <<>>
    /\ now = 0
    /\ requests = 0
    /\ last = Idle

store == << students, risk_profiles, assessments, alerts, message_analyses,
            sessions, now, requests, last >>

InitGate ==
    /\ EmptyStore
    /\ NoLearning
    /\ inflight = None
    /\ trajectory = None
    /\ calc_in = None /\ calc_out = None
    /\ risk_in = None /\ risk_out = None
    /\ \/ \E i \in GateInputs : gate_in = Some(i)
       \/ \E r \in GateReplies : gate_in = Some([llm_response |-> r, risk_profile |-> <<>>])
    /\ gate_out = None

\* one call of _checkpoint_5_response_gating(message, llm_response, deep_analysis)
Gate ==
    /\ gate_out = None
    /\ gate_out' = Some(_checkpoint_5_response_gating(Get(gate_in).llm_response,
                                                      Get(gate_in).risk_profile))
    /\ UNCHANGED << store, calc_in, calc_out, risk_in, risk_out, gate_in, learning, trajectory, inflight >>

NextGate == Gate

SpecGate == InitGate /\ [][NextGate]_vars

(* --------------------------------- direct calls of _calculate_overall_risk *)
\* the factor dicts a RiskFactors is built from
SIOptions ==
    { None,
      Some([present |-> FALSE, confidence |-> Conf(50)]),
      Some([present |-> TRUE,  confidence |-> Conf(30)]),
      Some([present |-> TRUE,  confidence |-> Conf(95)]) }

DepOptions ==
    {None} \cup { Some([estimated_phq9 |-> p, confidence |-> Conf(90), reason |-> "phq9"]) :
                     p \in {5, 10, 15, 20} }

BehOptions ==
    {None} \cup { Some([concern |-> c, confidence |-> Conf(75), reason |-> "engagement"]) :
                     c \in {"LOW", "MEDIUM", "HIGH"} }

\* pattern_details as _detect_patterns builds it
PatternDetails ==
    { [rapid_deterioration |-> a, pre_decision_calm |-> b, chronic_elevated |-> c,
       cyclical |-> FALSE, disengagement |-> d] : a, b, c, d \in BOOLEAN }

NoPatterns ==
    [rapid_deterioration |-> FALSE, pre_decision_calm |-> FALSE, chronic_elevated |-> FALSE,
     cyclical |-> FALSE, disengagement |-> FALSE]

\* the change made to one factor of the first input to get the second: a
\* present suicidal ideation, a PHQ-9 estimate of 10, 15 or 20, a MEDIUM or
\* HIGH behaviour concern, or one temporal pattern set
Raises ==
    { [factor |-> "suicidal_ideation", to |-> "present"],
      [factor |-> "depression_severity", to |-> "10"],
      [factor |-> "depression_severity", to |-> "15"],
      [factor |-> "depression_severity", to |-> "20"],
      [factor |-> "behavior_change", to |-> "MEDIUM"],
      [factor |-> "behavior_change", to |-> "HIGH"],
      [factor |-> "rapid_deterioration", to |-> "set"],
      [factor |-> "pre_decision_calm", to |-> "set"],
      [factor |-> "chronic_elevated", to |-> "set"],
      [factor |-> "disengagement", to |-> "set"] }

\* the PHQ-9 estimate a raise names
RaisedPHQ9(to) == IF to = "10" THEN 10 ELSE IF to = "15" THEN 15 ELSE 20

\* the risk factors of the second input
RaisedFactors(risk_factors, raise) ==
    IF raise.factor = "suicidal_ideation"
    THEN [risk_factors EXCEPT !.suicidal_ideation =
             Some([present |-> TRUE, confidence |-> Conf(95)])]
    ELSE IF raise.factor = "depression_severity"
    THEN [risk_factors EXCEPT !.depression_severity =
             Some([estimated_phq9 |-> RaisedPHQ9(raise.to), confidence |-> Conf(90),
                   reason |-> "phq9"])]
    ELSE IF raise.factor = "behavior_change"
    THEN [risk_factors EXCEPT !.behavior_change =
             Some([concern |-> raise.to, confidence |-> Conf(75), reason |-> "engagement"])]
    ELSE risk_factors

\* the temporal patterns of the second input
RaisedPatterns(temporal_patterns, raise) ==
    IF raise.factor \in DOMAIN NoPatterns
    THEN [use_snapshot_only |-> DictGet(temporal_patterns, "use_snapshot_only", FALSE),
          pattern_details |->
             [DictGet(temporal_patterns, "pattern_details", NoPatterns)
                 EXCEPT ![raise.factor] = TRUE]]
    ELSE temporal_patterns

OverallInput(risk_factors, temporal_patterns, raise) ==
    [risk_factors |-> risk_factors, temporal_patterns |-> temporal_patterns, raise |-> raise]

InitOverall ==
    /\ EmptyStore
    /\ NoLearning
    /\ inflight = None
    /\ trajectory = None
    /\ calc_in = None /\ calc_out = None
    /\ gate_in = None /\ gate_out = None
    /\ \E si \in SIOptions, dep \in DepOptions, beh \in BehOptions, raise \in Raises :
          \/ \E snapshot \in BOOLEAN, details \in PatternDetails :
                risk_in = Some(OverallInput(RiskFactors(si, dep, beh),
                             [use_snapshot_only |-> snapshot, pattern_details |-> details],
                             raise))
          \/ risk_in = Some(OverallInput(RiskFactors(si, dep, beh), TrajectoryOf(<<>>), raise))
    /\ risk_out = None

\* _calculate_overall_risk on the first input and on the second
CalculateOverallRisk ==
    /\ risk_out = None
    /\ risk_out' =
          Some([ first  |-> _calculate_overall_risk(Get(risk_in).risk_factors,
                                                    Get(risk_in).temporal_patterns),
                 raised_factors  |-> RaisedFactors(Get(risk_in).risk_factors, Get(risk_in).raise),
                 raised_patterns |-> RaisedPatterns(Get(risk_in).temporal_patterns,
                                                    Get(risk_in).raise),
                 second |-> _calculate_overall_risk(
                               RaisedFactors(Get(risk_in).risk_factors, Get(risk_in).raise),
                               RaisedPatterns(Get(risk_in).temporal_patterns,
                                              Get(risk_in).raise)) ])
    /\ UNCHANGED << store, calc_in, calc_out, risk_in, gate_in, gate_out, learning, trajectory, inflight >>

NextOverall == CalculateOverallRisk

SpecOverall == InitOverall /\ [][NextOverall]_vars

(* ------------------------------------------- direct calls of calculate_risk *)
\* a risk_profiles row of student s1
Row(overall_risk, calculated_at) ==
    [student_id |-> "s1", overall_risk |-> overall_risk,
     recommended_action |-> _determine_action(overall_risk, FracOf(Conf(50))),
     calculated_at |-> calculated_at]

\* The risk histories on file when calculate_risk is called, with the day of
\* the call: none; three HIGH rows of one day; CRISIS, CRISIS, LOW on three
\* days; three CRISIS then two LOW rows of one day; four LOW rows, the last
\* one four days after the others; three HIGH rows older than HistoryDays.
RiskStores ==
    { [now |-> 0, rows |-> <<>>],
      [now |-> 0, rows |-> << Row("HIGH", 0), Row("HIGH", 0), Row("HIGH", 0) >>],
      [now |-> 2, rows |-> << Row("CRISIS", 0), Row("CRISIS", 1), Row("LOW", 2) >>],
      [now |-> 0, rows |-> << Row("CRISIS", 0), Row("CRISIS", 0), Row("CRISIS", 0),
                              Row("LOW", 0), Row("LOW", 0) >>],
      [now |-> 4, rows |-> << Row("LOW", 0), Row("LOW", 0), Row("LOW", 0), Row("LOW", 4) >>],
      [now |-> 40, rows |-> << Row("HIGH", 0), Row("HIGH", 0), Row("HIGH", 0) >>] }

\* the PHQ-9 rows on file: none, or one of score 17 or 22
AssessmentStores ==
    { <<>> } \cup
    { << [student_id |-> "s1", assessment_type |-> "PHQ9", score |-> score,
          administered_at |-> 0] >> : score \in PHQ9Scores }

\* the answers to the two contextual-risk calls of one calculate_risk
CalcAnswers ==
    { <<a, a>> : a \in LLMContextualAnswers }
    \cup { <<LLMRaise, LLMQuiet>>, <<LLMQuiet, LLMRaise>>, <<LLMLiteral, LLMModerate>> }

\* how much context there is: the length of the conversation history and the
\* keys of the baseline profile
ContextDepths ==
    { [history_len |-> 0,  baseline |-> {}],
      [history_len |-> 5,  baseline |-> {}],
      [history_len |-> 10, baseline |-> {"typical_sentiment"}] }

\* engagement_drop_percentage of the behavioural metadata (0: the key is absent)
EngagementDrops == { 0, Conf(45), Conf(70) }

\* the context argument: the safety flags are those of checkpoint 1 for the
\* message, as both callers pass them
CalcContext(message_text, depth, cssrs, drop, sleep) ==
    [ student_info         |-> [session_count |-> 0, baseline_profile |-> depth.baseline],
      conversation_history |-> [i \in 1..depth.history_len |-> [message_text |-> "earlier"]],
      behavioral_metadata  |-> IF drop = 0 THEN <<>>
                               ELSE [engagement_drop_percentage |-> drop],
      current_risk_profile |-> IF cssrs THEN [cssrs_score |-> 3] ELSE <<>>,
      safety_flags         |-> screen_immediate(message_text).flags,
      crisis_detected      |-> screen_immediate(message_text).crisis_detected ]
    @@ (IF sleep THEN [concern_indicators |-> {"sleep_issues", "low_energy"}] ELSE <<>>)

CalcFaults == { "none", "calc_read", "profile_write" }

InitRisk ==
    /\ NoLearning
    /\ inflight = None
    /\ trajectory = None
    /\ students = [s \in Students |-> NoStudent]
    /\ alerts = <<>>
    /\ message_analyses = <<>>
    /\ sessions = <<>>
    /\ requests = 0
    /\ last = Idle
    /\ risk_in = None /\ risk_out = None
    /\ gate_in = None /\ gate_out = None
    /\ \E stored \in RiskStores : now = stored.now /\ risk_profiles = stored.rows
    /\ assessments \in AssessmentStores
    /\ \E message_text \in MessageTexts, depth \in ContextDepths, cssrs \in BOOLEAN,
          drop \in EngagementDrops, sleep \in BOOLEAN, pair \in CalcAnswers,
          fault \in CalcFaults :
          calc_in = Some([ student_id |-> "s1", message_text |-> message_text,
                           context |-> CalcContext(message_text, depth, cssrs, drop, sleep),
                           si_answer |-> pair[1], dep_answer |-> pair[2],
                           fault |-> fault ])
    /\ calc_out = None

\* what a call of calculate_risk leaves behind: its outcome (see
\* calculate_risk) with the dict analyze_trajectory gave it, and the tables
Calculated(args, temporal_patterns, calc) ==
    /\ calc_out' = Some([calc EXCEPT !.row = None] @@ [trajectory |-> temporal_patterns])
    /\ risk_profiles' = ProfilesAfterCalc(calc)
    /\ students' = StudentsAfterCalc(students, calc, args.student_id)
    /\ UNCHANGED << assessments, alerts, message_analyses, sessions, now, requests, last,
                    calc_in, risk_in, risk_out, gate_in, gate_out, learning, trajectory, inflight >>

\* one call of calculate_risk(student_id, message_text, context, concern_indicators)
CalculateRisk ==
    /\ calc_out = None
    /\ Calculated(Get(calc_in),
                  analyze_trajectory(risk_profiles, Get(calc_in).student_id, now),
                  calculate_risk(Get(calc_in).student_id, Get(calc_in).message_text,
                                 Get(calc_in).context, Get(calc_in).si_answer,
                                 Get(calc_in).dep_answer, Get(calc_in).fault))

NextRisk == CalculateRisk

SpecRisk == InitRisk /\ [][NextRisk]_vars

(* --------------------------------------- direct analyses of a risk history *)
\* bound: the longest risk-score series analysed
MaxSnapshots == 7

\* a history of one snapshot a day with the given scores
HistoryWith(scores) ==
    [i \in 1..Len(scores) |-> [date |-> i, risk_score |-> scores[i]]]

\* every series of 3 to MaxSnapshots scores on the 1-4 scale
InitTrajectory ==
    /\ EmptyStore
    /\ NoLearning
    /\ inflight = None
    /\ calc_in = None /\ calc_out = None
    /\ risk_in = None /\ risk_out = None
    /\ gate_in = None /\ gate_out = None
    /\ \E n \in 3..MaxSnapshots : \E scores \in [1..n -> 1..4] :
          trajectory = [history |-> HistoryWith(scores), result |-> None]

\* analyze_trajectory on the history
AnalyzeTrajectory ==
    /\ trajectory.result = None
    /\ trajectory' = [trajectory EXCEPT !.result = Some(TrajectoryOf(trajectory.history))]
    /\ UNCHANGED << store, calls, learning, inflight >>

NextTrajectory == AnalyzeTrajectory

SpecTrajectory == InitTrajectory /\ [][NextTrajectory]_vars

(* ------------------------------------------- the tiers of a student's life *)
\* bounds: requests served, and the days the clock runs
MaxTierRequests == 4

MaxDays == 30

InitTier ==
    /\ EmptyStore
    /\ NoLearning
    /\ inflight = None
    /\ trajectory = None
    /\ calc_in = None /\ calc_out = None
    /\ risk_in = None /\ risk_out = None
    /\ gate_in = None /\ gate_out = None

\* POST /api/messages/process with an everyday message, in a new session or
\* in the latest one, the collaborator answering every prompt
ProcessCalmMessage ==
    /\ requests < MaxTierRequests
    /\ requests' = requests + 1
    /\ \E student_id \in Students, session_id \in {0, Len(sessions)} :
          HandleMessage([student_id |-> student_id, message_text |-> "i had a good day",
                         session_id |-> session_id], LLMCalm, "none")
    /\ UNCHANGED inflight

\* a checkpoint interval passes
Tick ==
    /\ now < MaxDays
    /\ now' = now + checkpoint_interval_days
    /\ UNCHANGED << students, risk_profiles, assessments, alerts, message_analyses, sessions,
                    requests, last, calls, learning, trajectory, inflight >>

NextTier == ProcessCalmMessage \/ RecordAssessment \/ Tick

SpecTier == InitTier /\ [][NextTier]_vars

(* ------------------------------- feedback, calibration and the thresholds *)
\* bounds: feedback rows submitted, and calls of adjust_thresholds that adjust
MaxFeedback == 2

MaxAdjustments == 2

\* rows of counselor_feedback older than the 30-day window at the start
EarlierFeedback == {0, 98, 498}

\* the fields of a feedback the metrics read: an appropriate alert on a severe
\* case, an over-flagged one, a missed crisis, an appropriate quiet case
FeedbackInputs ==
    { [was_appropriate |-> TRUE,  actual_severity |-> "Severe", ai_accuracy |-> "accurate"],
      [was_appropriate |-> FALSE, actual_severity |-> "Mild",   ai_accuracy |-> "over_flagged"],
      [was_appropriate |-> TRUE,  actual_severity |-> "Crisis", ai_accuracy |-> "missed_context"],
      [was_appropriate |-> TRUE,  actual_severity |-> "Mild",   ai_accuracy |-> "accurate"] }

\* performance metrics handed to adjust_thresholds directly
MetricsInputs ==
    { [total |-> tp + fp + fn, true_positives |-> tp, false_positives |-> fp,
       false_negatives |-> fn, true_negatives |-> 0] :
         tp \in {0, 1, 4}, fp \in {0, 2}, fn \in {0, 1} }

\* the risk calculations of this specification: a depression factor alone
InitLearning ==
    /\ EmptyStore
    /\ \E earlier \in EarlierFeedback : feedback = [earlier |-> earlier, rows |-> <<>>]
    /\ current_thresholds = InitialThresholdSet
    /\ calibrations = <<>>
    /\ adjusted = None
    /\ trajectory = None
    /\ inflight = None
    /\ calc_in = None /\ calc_out = None
    /\ gate_in = None /\ gate_out = None
    /\ \E dep \in DepOptions :
          risk_in = Some(OverallInput(RiskFactors(None, dep, None), TrajectoryOf(<<>>),
                                      [factor |-> "depression_severity", to |-> "15"]))
    /\ risk_out = None

\* FeedbackCollector.submit_feedback: one more counselor_feedback row
SubmitFeedback ==
    /\ Len(feedback.rows) < MaxFeedback
    /\ \E row \in FeedbackInputs : feedback' = [feedback EXCEPT !.rows = Append(@, row)]
    /\ UNCHANGED << store, calls, current_thresholds, calibrations, adjusted, trajectory, inflight >>

\* adjust_thresholds(performance_metrics) on the service instance
AdjustedOn(source, result) ==
    /\ (result.adjustments # <<>> => Len(calibrations) < 3 * MaxAdjustments)
    /\ calibrations' = IF result.adjustments # <<>> THEN _record_calibration(result.adjustments)
                       ELSE calibrations
    /\ adjusted' = Some([source |-> source, before |-> result.before, after |-> result.after,
                         adjustments |-> result.adjustments,
                         false_positive_rule |-> result.false_positive_rule,
                         false_negative_rule |-> result.false_negative_rule,
                         feedback_count |-> _get_feedback_count])

AdjustThresholds ==
    /\ \/ \E performance_metrics \in MetricsInputs :
             /\ AdjustedOn("service", adjust_thresholds(current_thresholds, performance_metrics))
             /\ current_thresholds' =
                   adjust_thresholds(current_thresholds, performance_metrics).after
       \/ /\ AdjustedOn("service", adjust_thresholds(current_thresholds, [total |-> 0]))
          /\ current_thresholds' = adjust_thresholds(current_thresholds, [total |-> 0]).after
    /\ UNCHANGED << store, calls, feedback, trajectory, inflight >>

\* POST /api/learning/calibrate-thresholds: a service made for the request,
\* the metrics of the feedback in the window, adjust_thresholds on it
CalibrateThresholds ==
    /\ AdjustedOn("request", adjust_thresholds(InitialThresholdSet,
                                               calculate_performance_metrics(feedback.rows)))
    /\ UNCHANGED << store, calls, feedback, current_thresholds, trajectory, inflight >>

NextLearning == SubmitFeedback \/ AdjustThresholds \/ CalibrateThresholds \/ CalculateOverallRisk

SpecLearning == InitLearning /\ [][NextLearning]_vars


(* ================================================================ properties *)
\* the MessageAnalysis the last run of process_message returned
Returned == Get(last.analysis)

(* C1: whenever checkpoint 1 reports crisis_detected and process_message      *)
(* returns, the returned MessageAnalysis has the fixed crisis-protocol        *)
(* message as response_text and crisis_protocol_triggered = true, whatever    *)
(* the risk calculation of the crisis branch produced, a profile or none.     *)
C1_CrisisResponseIsProtocol ==
    (last.crisis_detected /\ IsSome(last.analysis)) =>
        /\ Returned.response_text = Some(crisis_protocol_message)
        /\ Returned.crisis_protocol_triggered

\* a crisis run that returned although its risk calculation failed: the
\* analysis carries no profile
C1_Witness ==
    /\ last.crisis_detected
    /\ IsSome(last.analysis)
    /\ last.calc.raised
    /\ Returned.risk_profile = None

(* C2: if checkpoint 1 detected a crisis, process_message returns a reply     *)
(* whatever later step fails (a persistence read of context enrichment, the   *)
(* risk calculation, a persistence write): it never raises.                   *)
C2_CrisisAlwaysReplies ==
    last.crisis_detected =>
        /\ last.outcome = "returned"
        /\ IsSome(last.analysis)
        /\ Returned.response_text = Some(crisis_protocol_message)

(* C3: when checkpoint 5 gates a profile with overall_risk HIGH and           *)
(* confidence <= 0.9 (0.9 included), the final response is the generated      *)
(* reply followed by the counseling-offer suffix, and the crisis protocol is  *)
(* not triggered.                                                             *)
C3_HighUpToThresholdOffersCounseling ==
    ( /\ last.outcome = "returned"
      /\ ~last.crisis_detected
      /\ Get(Returned.risk_profile).overall_risk = "HIGH"
      /\ ~FracGT(Get(Returned.risk_profile).confidence, Conf(90)) )
    => /\ Returned.response_text =
             Some(OrEmpty(Returned.checkpoint_results[3].response) \o counseling_note)
       /\ ~Returned.crisis_protocol_triggered

(* C4: checkpoint 5 sends the crisis-protocol message and marks               *)
(* crisis_triggered for CRISIS at any confidence and for HIGH above 0.9,      *)
(* discarding the reply; for MEDIUM it sends the reply followed by the        *)
(* counseling-offer suffix; for LOW it sends the reply unmodified.            *)
C4_GatingTable ==
    (IsSome(gate_out) /\ Get(gate_in).risk_profile # <<>>) =>
        LET llm_response == Get(gate_in).llm_response
            overall_risk == Get(gate_in).risk_profile.overall_risk
            confidence == Get(gate_in).risk_profile.confidence
            result == Get(gate_out)
        IN /\ (overall_risk = "CRISIS"
                  \/ (overall_risk = "HIGH" /\ FracGT(confidence, Conf(90))))
              => /\ result.final_response = Some(crisis_protocol_message)
                 /\ result.crisis_triggered
           /\ overall_risk = "MEDIUM"
              => /\ result.final_response = Some(OrEmpty(llm_response) \o counseling_note)
                 /\ ~result.crisis_triggered
           /\ overall_risk = "LOW"
              => /\ result.final_response = llm_response
                 /\ ~result.crisis_triggered

\* a HIGH profile of confidence 0.91 whose reply was replaced by the
\* crisis-protocol message
C4_Witness ==
    /\ IsSome(gate_out)
    /\ Get(gate_in).risk_profile # <<>>
    /\ Get(gate_in).risk_profile.overall_risk = "HIGH"
    /\ Get(gate_in).risk_profile.confidence = FracOf(Conf(91))
    /\ Get(gate_in).llm_response = Some("i hear you")
    /\ Get(gate_out).final_response = Some(crisis_protocol_message)
    /\ Get(gate_out).crisis_triggered

\* the risk codes the claims speak of: what each factor contributes (0: nothing)
SICode(risk_factors) ==
    IF risk_factors.suicidal_ideation # None /\ Get(risk_factors.suicidal_ideation).present
    THEN 4 ELSE 0

PHQ9Code(risk_factors) ==
    IF risk_factors.depression_severity = None THEN 0
    ELSE IF Get(risk_factors.depression_severity).estimated_phq9 >= 20 THEN 4
    ELSE IF Get(risk_factors.depression_severity).estimated_phq9 >= 15 THEN 3
    ELSE IF Get(risk_factors.depression_severity).estimated_phq9 >= 10 THEN 2
    ELSE 0

ConcernCode(risk_factors) ==
    IF risk_factors.behavior_change = None THEN 0
    ELSE IF Get(risk_factors.behavior_change).concern = "HIGH" THEN 3
    ELSE IF Get(risk_factors.behavior_change).concern = "MEDIUM" THEN 2
    ELSE 0

PatternCode(temporal_patterns, name) ==
    IF \/ "pattern_details" \notin DOMAIN temporal_patterns
       \/ ("use_snapshot_only" \in DOMAIN temporal_patterns
              /\ temporal_patterns.use_snapshot_only)
       \/ ~temporal_patterns.pattern_details[name]
    THEN 0
    ELSE IF name = "pre_decision_calm" THEN 4
    ELSE IF name = "rapid_deterioration" THEN 3
    ELSE 2

FactorCode(risk_factors, temporal_patterns, factor) ==
    IF factor = "suicidal_ideation" THEN SICode(risk_factors)
    ELSE IF factor = "depression_severity" THEN PHQ9Code(risk_factors)
    ELSE IF factor = "behavior_change" THEN ConcernCode(risk_factors)
    ELSE PatternCode(temporal_patterns, factor)

ContributedCodes(risk_factors, temporal_patterns) ==
    { FactorCode(risk_factors, temporal_patterns, f) :
         f \in { "suicidal_ideation", "depression_severity", "behavior_change",
                 "rapid_deterioration", "pre_decision_calm", "chronic_elevated",
                 "disengagement" } } \ {0}

LevelOfCodes(codes) ==
    IF 4 \in codes THEN "CRISIS"
    ELSE IF 3 \in codes THEN "HIGH"
    ELSE IF 2 \in codes THEN "MEDIUM"
    ELSE "LOW"

LevelOrder(level) ==
    CASE level = "LOW" -> 1 [] level = "MEDIUM" -> 2 [] level = "HIGH" -> 3
      [] level = "CRISIS" -> 4

(* C5: every risk profile calculate_risk returns has a confidence in [0, 1]   *)
(* and an overall_risk that is exactly the level of the largest risk code     *)
(* its present factors and the temporal patterns contribute (4 CRISIS, 3      *)
(* HIGH, 2 MEDIUM; LOW when nothing contributes).                             *)
C5_ProfileLevelIsMaxCode ==
    (IsSome(calc_out) /\ IsSome(Get(calc_out).result)) =>
        LET profile == Get(Get(calc_out).result)
        IN /\ 0 <= profile.confidence.num
           /\ profile.confidence.num <= profile.confidence.den
           /\ profile.overall_risk =
                 LevelOfCodes(ContributedCodes(profile.risk_factors,
                                               Get(calc_out).trajectory))

\* a profile that is HIGH because of a temporal pattern alone
C5_Witness ==
    /\ IsSome(calc_out)
    /\ IsSome(Get(calc_out).result)
    /\ Get(Get(calc_out).result).overall_risk = "HIGH"
    /\ Get(Get(calc_out).result).risk_factors.suicidal_ideation = None
    /\ Get(Get(calc_out).result).risk_factors.depression_severity = None
    /\ Get(Get(calc_out).result).risk_factors.behavior_change = None
    /\ ContributedCodes(Get(Get(calc_out).result).risk_factors, Get(calc_out).trajectory)
          = {3}

(* C6: _calculate_overall_risk is monotone: when the second input differs     *)
(* from the first only in one factor (suicidal ideation, depression severity, *)
(* behaviour change, or one temporal pattern) and that factor contributes a   *)
(* higher risk code in the second, the overall_risk of the second is at least *)
(* that of the first in the order LOW < MEDIUM < HIGH < CRISIS.               *)
C6_OverallRiskMonotone ==
    IsSome(risk_out) =>
        ( FactorCode(Get(risk_out).raised_factors, Get(risk_out).raised_patterns,
                     Get(risk_in).raise.factor)
             > FactorCode(Get(risk_in).risk_factors, Get(risk_in).temporal_patterns,
                          Get(risk_in).raise.factor)
          => LevelOrder(Get(risk_out).second.overall_risk)
                >= LevelOrder(Get(risk_out).first.overall_risk) )

\* a HIGH depression estimate next to which the behaviour concern is raised
\* from nothing to MEDIUM: the level stays HIGH
C6_Witness ==
    /\ IsSome(risk_out)
    /\ Get(risk_in).raise = [factor |-> "behavior_change", to |-> "MEDIUM"]
    /\ Get(risk_in).risk_factors.behavior_change = None
    /\ PHQ9Code(Get(risk_in).risk_factors) = 3
    /\ Get(risk_out).first.overall_risk = "HIGH"
    /\ Get(risk_out).second.overall_risk = "HIGH"

\* whether a fallback keyword pattern matches the message
KeywordMatch(message_text) ==
    \E i \in 1..Len(suicidal_patterns) : re_search(suicidal_patterns[i], message_text)

(* C7: when the collaborator raises during the contextual suicidal-ideation   *)
(* analysis and the message matches a fallback keyword (no safety flags, no   *)
(* C-SSRS score on file), calculate_risk completes and the suicidal-ideation  *)
(* factor of the returned profile has confidence 0.3 and                      *)
(* requires_human_review = true.                                              *)
C7_FallbackFactorFlagsReview ==
    ( /\ IsSome(calc_out)
      /\ Get(calc_in).fault = "none"
      /\ Get(calc_in).si_answer = LLMRaise
      /\ Get(calc_in).context.safety_flags = <<>>
      /\ ~Get(calc_in).context.crisis_detected
      /\ Get(calc_in).context.current_risk_profile = <<>>
      /\ KeywordMatch(Get(calc_in).message_text) )
    => /\ ~Get(calc_out).raised
       /\ IsSome(Get(calc_out).result)
       /\ Get(Get(calc_out).result).risk_factors.suicidal_ideation # None
       /\ LET factor == Get(Get(Get(calc_out).result).risk_factors.suicidal_ideation)
          IN /\ factor.confidence = Conf(30)
             /\ "requires_human_review" \in DOMAIN factor
             /\ factor.requires_human_review

\* the contextual answers that are unparsable or structurally invalid
InvalidAnswers == {LLMGarbage} \cup LLMMalformed

(* C8: a contextual answer that is unparsable or structurally invalid (a      *)
(* missing top-level key, a non-boolean present, a confidence outside [0, 1]  *)
(* in the suicidal-ideation or the depression block) never makes              *)
(* calculate_risk raise.                                                      *)
C8_InvalidAnswerNeverRaises ==
    ( /\ IsSome(calc_out)
      /\ Get(calc_in).fault = "none"
      /\ \/ Get(calc_in).si_answer \in InvalidAnswers
         \/ Get(calc_in).dep_answer \in InvalidAnswers )
    => ~Get(calc_out).raised

(* C9: after any sequence of calls of /api/messages/process there are never   *)
(* two alerts in routing_status PENDING with the same student_id and the same *)
(* message: a repeated submission creates no second PENDING alert.            *)
C9_NoDuplicatePendingAlerts ==
    \A i, j \in 1..Len(alerts) :
        ( /\ i < j
          /\ alerts[i].routing_status = "PENDING"
          /\ alerts[j].routing_status = "PENDING"
          /\ alerts[i].student_id = alerts[j].student_id )
        => alerts[i].message # alerts[j].message

\* a second submission whose alert was already there and PENDING
C9_Witness ==
    /\ requests = 2
    /\ last.outcome = "returned"
    /\ last.alert = "suppressed"
    /\ \E i \in 1..Len(alerts) :
          /\ alerts[i].student_id = last.student_id
          /\ alerts[i].routing_status = "PENDING"

(* C10, as stated: whenever the write of a RiskProfile fails, the transaction *)
(* is rolled back and the failure propagates out of process_message on every  *)
(* path, the crisis branch included: no run returns normally after its        *)
(* profile could not be persisted.                                            *)
C10_WriteFailureAlwaysPropagates ==
    last.calc.cause = "write" =>
        /\ last.calc.rolled_back
        /\ last.outcome = "raised"

(* C10, amended: whenever the write of a RiskProfile fails, the transaction   *)
(* is rolled back and calculate_risk raises; on the normal branch the failure *)
(* propagates out of process_message, on the crisis branch it is caught and   *)
(* process_message returns the crisis-protocol response with no risk profile. *)
C10_WriteFailurePropagatesOnNormalBranch ==
    last.calc.cause = "write" =>
        /\ last.calc.rolled_back
        /\ last.calc.raised
        /\ ~last.crisis_detected => (last.outcome = "raised" /\ last.analysis = None)
        /\ last.crisis_detected =>
              /\ last.outcome = "returned"
              /\ Returned.risk_profile = None
              /\ Returned.response_text = Some(crisis_protocol_message)
              /\ Returned.crisis_protocol_triggered

\* a crisis run that returned the crisis-protocol response after the write
\* of its profile failed
C10_Witness ==
    /\ last.calc.cause = "write"
    /\ last.fault = "profile_write"
    /\ last.crisis_detected
    /\ last.outcome = "returned"

(* C11: each run of process_message in which the risk calculation succeeds   *)
(* appends exactly one RiskProfile row, for the message's student, on either  *)
(* branch; a run whose calculation did not succeed appends none; and no step  *)
(* modifies or deletes a stored row: the old table is always a prefix of the  *)
(* new one.                                                                   *)
C11_ProfilesAppendOnly ==
    [][ /\ Len(risk_profiles') >= Len(risk_profiles)
        /\ SubSeq(risk_profiles', 1, Len(risk_profiles)) = risk_profiles
        /\ requests' # requests =>
              IF ~last'.calc.raised /\ last'.calc.cause = "none"
              THEN /\ Len(risk_profiles') = Len(risk_profiles) + 1
                   /\ risk_profiles'[Len(risk_profiles')].student_id = last'.student_id
              ELSE risk_profiles' = risk_profiles ]_vars

\* two runs for one student, the second on the crisis branch, both with a
\* successful calculation: two rows of that student are on file
C11_Witness ==
    /\ requests = 2
    /\ last.crisis_detected
    /\ ~last.calc.raised /\ last.calc.cause = "none"
    /\ Len(risk_profiles) = 2
    /\ risk_profiles[1].student_id = risk_profiles[2].student_id

\* the positions of the calls of a method in the calls of the last run
CallsOf(op) == { i \in 1..Len(last.steps) : last.steps[i].op = op }

(* C12: on the crisis branch (checkpoint 1 detected a crisis) context         *)
(* enrichment runs right after the safety screen, calculate_risk is then      *)
(* invoked exactly once, with the safety flags of checkpoint 1 in its         *)
(* context, and checkpoint 3 (the reply-generation call) is never made.       *)
C12_CrisisBranchCallsRiskOnce ==
    last.crisis_detected =>
        /\ CallsOf("_checkpoint_1_safety_screen") = {1}
        /\ CallsOf("_checkpoint_2_context_enrichment") = {2}
        /\ CallsOf("calculate_risk") = {3}
        /\ last.steps[3].safety_flags = screen_immediate(last.message_text).flags
        /\ last.steps[3].safety_flags # <<>>
        /\ CallsOf("_checkpoint_3_llm_generation") = {}

\* the checkpoint methods in the order of the pipeline, and their names in
\* the audit trail
CheckpointOrder ==
    << "_checkpoint_1_safety_screen", "_checkpoint_2_context_enrichment",
       "_checkpoint_3_llm_generation", "_checkpoint_4_deep_analysis",
       "_checkpoint_5_response_gating" >>

CheckpointNames ==
    << "IMMEDIATE_SAFETY_SCREEN", "CONTEXT_ENRICHMENT", "LLM_GENERATION",
       "DEEP_ANALYSIS", "RESPONSE_GATING" >>

\* the checkpoint calls among the calls of the last run, in order
CheckpointCalls ==
    LET picked == SelectSeq(last.steps, LAMBDA c : c.op # "calculate_risk")
    IN [i \in 1..Len(picked) |-> picked[i].op]

\* the names in the audit trail the last run returned
AuditNames == [i \in 1..Len(Returned.checkpoint_results) |-> Returned.checkpoint_results[i].name]

CSSRSOnFile(student_id) ==
    \E i \in 1..Len(assessments) :
        /\ assessments[i].student_id = student_id
        /\ assessments[i].assessment_type = "C_SSRS"
        /\ assessments[i].score > 0

(* C14: when a validated C-SSRS assessment with a score above 0 is on file    *)
(* for a student and a later message of that student raises no safety flag,   *)
(* the suicidal-ideation factor computed for that message is present with     *)
(* confidence 0.95 and the contextual-analysis collaborator is not consulted  *)
(* for it.                                                                    *)
C14_CSSRSShortCircuits ==
    [][ ( /\ requests' # requests
          /\ CSSRSOnFile(last'.student_id)
          /\ ~last'.crisis_detected
          /\ last'.outcome = "returned" )
        => LET factor == Get(last'.analysis).risk_profile[1].risk_factors.suicidal_ideation
           IN /\ factor # None
              /\ Get(factor).present
              /\ Get(factor).confidence = Conf(95)
              /\ last'.calc.si_llm = "none" ]_vars

\* position of a deployment phase in the order of deployment
PhaseOrder(phase) ==
    IF phase = "COLD_START" THEN 0 ELSE IF phase = "CALIBRATION" THEN 1 ELSE 2

\* C15: the deployment phase is decided by the number of feedback records
\* alone: under 100 it is COLD_START with the policy
\* route_all_medium_plus_to_human, from 100 to 499 it is CALIBRATION, from
\* 500 on it is OPTIMIZATION; and no step, a submit_feedback included, lowers
\* the number of records or moves the phase backwards.
C15_PhaseFollowsFeedbackCount ==
    /\ [](/\ (_get_feedback_count < 100 =>
                /\ get_deployment_phase = "COLD_START"
                /\ get_routing_policy = "route_all_medium_plus_to_human")
          /\ (_get_feedback_count >= 100 /\ _get_feedback_count <= 499 =>
                get_deployment_phase = "CALIBRATION")
          /\ (_get_feedback_count >= 500 => get_deployment_phase = "OPTIMIZATION"))
    /\ [][/\ _get_feedback_count' >= _get_feedback_count
          /\ PhaseOrder(get_deployment_phase') >= PhaseOrder(get_deployment_phase)]_vars

\* two submissions have taken the count from 98 to 100 and the phase from
\* COLD_START to CALIBRATION
C15_Witness ==
    /\ feedback.earlier = 98
    /\ Len(feedback.rows) = 2
    /\ _get_feedback_count = 100
    /\ get_deployment_phase = "CALIBRATION"

\* after / before, for positive fractions
Ratio(before, after) ==
    Frac((after.num \div GCD(after.num, before.num))
            * (before.den \div GCD(before.den, after.den)),
         (before.num \div GCD(after.num, before.num))
            * (after.den \div GCD(before.den, after.den)))

\* after is within plus or minus 10% of before (both positive)
WithinTenPercent(before, after) ==
    /\ 10 * Ratio(before, after).num <= 11 * Ratio(before, after).den
    /\ 10 * Ratio(before, after).num >= 9 * Ratio(before, after).den

ThresholdTypes ==
    { "PHQ9", "GAD7", "confidence", "high_risk", "medium_risk", "minimum_confidence" }

\* C17: while fewer than 100 feedback records exist (COLD_START),
\* get_threshold returns the same fixed value for every threshold type,
\* whatever calls of adjust_thresholds have been made: the value the service
\* starts with.
C17_ColdStartThresholdsFixed ==
    _get_feedback_count < 100 =>
        \A threshold_type \in ThresholdTypes :
            get_threshold(threshold_type) = InitialThresholdSet[threshold_type]

\* C18: for every threshold a call of adjust_thresholds changed, the
\* calibration record written for it has the value before the call as
\* old_value, the value in effect after the call as new_value, and a reason.
C18_CalibrationRecordsBeforeAfter ==
    IsSome(adjusted) =>
        \A i \in 1..Len(AdjustedTypes) :
            Get(adjusted).after[AdjustedTypes[i]] # Get(adjusted).before[AdjustedTypes[i]] =>
                \E k \in 1..Len(Get(adjusted).adjustments) :
                    /\ Get(adjusted).adjustments[k].threshold_type = AdjustedTypes[i]
                    /\ Get(adjusted).adjustments[k].old_value
                          = Get(adjusted).before[AdjustedTypes[i]]
                    /\ Get(adjusted).adjustments[k].new_value
                          = Get(adjusted).after[AdjustedTypes[i]]
                    /\ Get(adjusted).adjustments[k].reason # ""
                    /\ \E c \in 1..Len(calibrations) :
                          calibrations[c] = Get(adjusted).adjustments[k]

\* the value of a threshold after the latest calibration recorded for it
Calibrated(threshold_type, rows) ==
    rows[CHOOSE k \in 1..Len(rows) :
            /\ rows[k].threshold_type = threshold_type
            /\ \A j \in (k + 1)..Len(rows) : rows[j].threshold_type # threshold_type].new_value

\* C19: the thresholds AdaptiveSensitivityService adjusts are the ones the
\* risk calculation decides with: a calculation performed after a calibration
\* has changed the PHQ9 threshold counts a depression factor as elevated
\* exactly when its PHQ-9 estimate reaches the calibrated threshold.
C19_CalculationUsesCalibratedThreshold ==
    [][(/\ calibrations # <<>>
        /\ risk_out = None
        /\ risk_out' # None
        /\ IsSome(Get(risk_in).risk_factors.depression_severity))
       => (Get(risk_out').first.overall_risk = "LOW"
             <=> Get(Get(risk_in).risk_factors.depression_severity).estimated_phq9
                    * Calibrated("PHQ9", calibrations).den
                 < Calibrated("PHQ9", calibrations).num)]_vars

\* the scores of the analysed series, the length of its first 70% and the
\* sums of its two parts
SeriesScores == [i \in 1..Len(trajectory.history) |-> trajectory.history[i].risk_score]

FirstPartLen == (7 * Len(SeriesScores)) \div 10

FirstPartSum == SumSeq(SubSeq(SeriesScores, 1, FirstPartLen))

LastPartLen == Len(SeriesScores) - FirstPartLen

LastPartSum == SumSeq(SubSeq(SeriesScores, FirstPartLen + 1, Len(SeriesScores)))

\* mean of the first 70% >= 3.0, mean of the last 30% < 2.0, drop > 1.5
CalmConditions ==
    /\ FirstPartSum >= 3 * FirstPartLen
    /\ LastPartSum < 2 * LastPartLen
    /\ 2 * (FirstPartSum * LastPartLen - LastPartSum * FirstPartLen)
          > 3 * FirstPartLen * LastPartLen

\* the risk_multiplier is 3.0 times the multipliers of the other patterns set
MultiplierIncludesThree(result) ==
    result.risk_multiplier
       = Frac(3 * (IF result.pattern_details.rapid_deterioration THEN 20 ELSE 10)
                * (IF result.pattern_details.chronic_elevated THEN 15 ELSE 10)
                * (IF result.pattern_details.disengagement THEN 13 ELSE 10),
              1000)

C21_PassiveTierAssignsNoRisk ==
    [][(/\ requests' = requests + 1
        /\ get_assessment_tier(students, last'.student_id) = "TIER_1_PASSIVE")
       => /\ risk_profiles' = risk_profiles
          /\ (IsSome(last'.analysis) => ~IsSome(Get(last'.analysis).risk_profile))]_vars

\* the days on which a checkpoint assessment of the student was put on file
CheckpointDays(student_id) ==
    { assessments[i].administered_at :
        i \in { k \in 1..Len(assessments) : assessments[k].student_id = student_id } }

\* a checkpoint is due: none is on file, or the interval has passed since
\* the latest one
CheckpointDue(student_id) ==
    \A day \in CheckpointDays(student_id) : now - day >= checkpoint_interval_days

\* C22: a student whose session_count has reached
\* passive_monitoring_sessions is in TIER_2_CHECKPOINT exactly while no
\* checkpoint is on record or the interval has passed since the last one, and
\* in TIER_3_CONTEXTUAL otherwise (so the operations that put a checkpoint on
\* record take the student to TIER_3_CONTEXTUAL); and no step takes a student
\* who has left TIER_1_PASSIVE back to it.
C22_TiersAfterPassivePhase ==
    /\ [](\A s \in Students :
            (students[s].exists /\ students[s].session_count >= passive_monitoring_sessions)
            => get_assessment_tier(students, s)
                  = IF CheckpointDue(s) THEN "TIER_2_CHECKPOINT" ELSE "TIER_3_CONTEXTUAL")
    /\ [][\A s \in Students :
            get_assessment_tier(students, s) # "TIER_1_PASSIVE"
            => (get_assessment_tier(students, s))' # "TIER_1_PASSIVE"]_vars

\* the confidences of the factors and temporal patterns that contributed a
\* risk code
ContributingConfidences(risk_factors, temporal_patterns) ==
    (IF SICode(risk_factors) > 0
     THEN << Get(risk_factors.suicidal_ideation).confidence >> ELSE <<>>)
    \o (IF PHQ9Code(risk_factors) > 0
        THEN << Get(risk_factors.depression_severity).confidence >> ELSE <<>>)
    \o (IF ConcernCode(risk_factors) > 0
        THEN << Get(risk_factors.behavior_change).confidence >> ELSE <<>>)
    \o (IF PatternCode(temporal_patterns, "rapid_deterioration") > 0
        THEN << DictGet(temporal_patterns, "velocity_confidence", Conf(80)) >> ELSE <<>>)
    \o (IF PatternCode(temporal_patterns, "pre_decision_calm") > 0
        THEN << Conf(95) >> ELSE <<>>)
    \o (IF PatternCode(temporal_patterns, "chronic_elevated") > 0
        THEN << Conf(70) >> ELSE <<>>)
    \o (IF PatternCode(temporal_patterns, "disengagement") > 0
        THEN << Conf(60) >> ELSE <<>>)

\* their arithmetic mean, 0.5 when there is none
MeanOrHalf(confidences) ==
    IF confidences = <<>> THEN FracOf(Conf(50))
    ELSE Frac(SumSeq(confidences), Len(confidences) * Unit)

\* C23: the confidence _calculate_overall_risk returns is the arithmetic mean
\* of the confidences of exactly the factors and temporal patterns that
\* contributed a risk code, and 0.5 when none did; a factor that contributes
\* no code leaves the confidence as it is without that factor.
C23_ConfidenceIsMeanOfContributors ==
    IsSome(risk_out) =>
        Get(risk_out).first.confidence
           = MeanOrHalf(ContributingConfidences(Get(risk_in).risk_factors,
                                                Get(risk_in).temporal_patterns))

(* ------------------------------ two requests in flight, one per student *)
\* the tables when the two requests arrive: nothing on file, or both students
\* on file with a session, risk profiles, an audit row each, a PHQ-9 result
\* of s2 and a pending crisis alert of s1
ConcurrentStores ==
    { [ students |-> [s \in Students |-> NoStudent],
        risk_profiles |-> <<>>, assessments |-> <<>>, alerts |-> <<>>,
        message_analyses |-> <<>>, sessions |-> <<>> ],
      [ students |-> [s \in Students |->
                        [exists |-> TRUE, session_count |-> 1, baseline_profile |-> {},
                         last_checkpoint_date |-> None]],
        risk_profiles |->
           [i \in 1..4 |->
              [student_id |-> IF i = 3 THEN "s2" ELSE "s1",
               overall_risk |-> IF i = 3 THEN "LOW" ELSE "HIGH",
               recommended_action |->
                  _determine_action(IF i = 3 THEN "LOW" ELSE "HIGH", FracOf(Conf(50))),
               calculated_at |-> 0]],
        assessments |-> << [student_id |-> "s2", assessment_type |-> "PHQ9",
                            score |-> 17, administered_at |-> 0] >>,
        alerts |-> << [student_id |-> "s1", alert_type |-> "IMMEDIATE",
                       message |->
                          "Crisis protocol triggered - immediate intervention required",
                       routing_status |-> "PENDING"] >>,
        message_analyses |->
           << [student_id |-> "s1", message_text |-> "i had a good day", checkpoints |-> 5],
              [student_id |-> "s2", message_text |-> "i had a good day", checkpoints |-> 5] >>,
        sessions |->
           << [student_id |-> "s1", session_number |-> 1, messages |-> <<"user", "haven">>],
              [student_id |-> "s2", session_number |-> 1, messages |-> <<"user">>] >> ] }

\* the collaborator's answers to one request: it finds nothing, or its reply
\* fails and it reads the message as literal suicidal ideation
ConcurrentAnswers ==
    { LLMCalm, Answers(None, "distress", "hopelessness", LLMLiteral, LLMQuiet) }

\* the messages of the two requests: one that passes checkpoint 1 and one
\* that takes the crisis branch
ConcurrentTexts == { "i had a good day", "i want to kill myself" }

\* the rows of a table that belong to a student
RowsOf(table, student_id) == SelectSeq(table, LAMBDA r : r.student_id = student_id)

\* what a request leaves for its student: the response, and the student's
\* rows of every table
Outcome(status, analysis, students_, risk_profiles_, message_analyses_, sessions_, alerts_, student_id) ==
    [ status |-> status, analysis |-> analysis,
      student |-> students_[student_id],
      risk_profiles |-> RowsOf(risk_profiles_, student_id),
      message_analyses |-> RowsOf(message_analyses_, student_id),
      sessions |-> RowsOf(sessions_, student_id),
      alerts |-> RowsOf(alerts_, student_id) ]

\* the endpoint on a request processed alone, from the result of
\* process_message on
AloneFrom(message, run, alert) ==
    Outcome(IF run.outcome = "raised" THEN 500 ELSE 200, run.analysis,
            IF run.outcome = "returned"
               /\ get_assessment_tier(run.students, message.student_id) = "TIER_1_PASSIVE"
            THEN track_passive_monitoring(run.students, message.student_id)
            ELSE run.students,
            run.risk_profiles, run.message_analyses, run.sessions,
            IF IsSome(alert) /\ ~ExistingAlert(Get(alert))
            THEN Append(alerts, Get(alert)) ELSE alerts,
            message.student_id)

AloneRun(message, run) ==
    AloneFrom(message, run,
              IF run.outcome = "returned"
              THEN AlertFor(message.student_id, Get(run.analysis)) ELSE None)

\* POST /api/messages/process for the message with no other request in flight
Alone(message, llm) == AloneRun(message, process_message(message, llm, "none"))

\* a request that has arrived
Arrived(message, llm) ==
    [ pc |-> "arrived", message |-> message, llm |-> llm,
      checkpoint1_result |-> _checkpoint_1_safety_screen(message),
      context |-> None, temporal_patterns |-> None, latest_assessment |-> None,
      status |-> 0, analysis |-> None, tier |-> "none",
      alone |-> Alone(message, llm) ]

InitConcurrent ==
    /\ NoLearning
    /\ trajectory = None
    /\ calc_in = None /\ calc_out = None
    /\ risk_in = None /\ risk_out = None
    /\ gate_in = None /\ gate_out = None
    /\ now = 0
    /\ requests = 0
    /\ last = Idle
    /\ \E stored \in ConcurrentStores :
          /\ students = stored.students
          /\ risk_profiles = stored.risk_profiles
          /\ assessments = stored.assessments
          /\ alerts = stored.alerts
          /\ message_analyses = stored.message_analyses
          /\ sessions = stored.sessions
    /\ \E texts \in [Students -> ConcurrentTexts], answers \in [Students -> ConcurrentAnswers],
          session_ids \in [Students -> {0, 1}] :
          inflight = [s \in Students |->
                        Arrived([student_id |-> s, message_text |-> texts[s],
                                 session_id |-> session_ids[s]], answers[s])]

\* checkpoints 1 and 2: the reads of the context, up to the first call of
\* the collaborator
Enrich(s) ==
    /\ inflight[s].pc = "arrived"
    /\ inflight' = [inflight EXCEPT
          ![s].pc = "enriched",
          ![s].context = Some(_checkpoint_2_context_enrichment(
                                 inflight[s].message, inflight[s].checkpoint1_result, "none"))]
    /\ UNCHANGED << store, calls, learning, trajectory >>

\* from the collaborator's reply to the start of calculate_risk: the emoji
\* baseline of checkpoint 4 (normal branch), then the read of the risk history
ReadHistory(s) ==
    /\ inflight[s].pc = "enriched"
    /\ students' = IF inflight[s].checkpoint1_result.passed
                   THEN StudentsAfterEmoji(students, s, inflight[s].llm.emoji)
                   ELSE students
    /\ inflight' = [inflight EXCEPT
          ![s].pc = "history_read",
          ![s].temporal_patterns = Some(analyze_trajectory(risk_profiles, s, now))]
    /\ UNCHANGED << risk_profiles, assessments, alerts, message_analyses, sessions, now,
                    requests, last, calls, learning, trajectory >>

\* after the first contextual answer: the read of the latest PHQ-9 result
ReadAssessment(s) ==
    /\ inflight[s].pc = "history_read"
    /\ inflight' = [inflight EXCEPT
          ![s].pc = "assessment_read",
          ![s].latest_assessment = Some(_get_latest_assessment(s, "PHQ9"))]
    /\ UNCHANGED << store, calls, learning, trajectory >>

\* the request from what it read so far on
Finish(request, calc) ==
    AfterScreen(request.message, request.llm, "none", request.checkpoint1_result,
                Get(request.context), calc)

\* after the second contextual answer: the risk profile is saved, the
\* response gated, the session and the audit row written, the alert created
\* after its duplicate check, the tier asked for
Decided(s, run, alert) ==
    /\ Respond(inflight[s].message, run, alert,
               IsSome(alert) /\ ExistingAlert(Get(alert)), "none", "deferred")
    /\ inflight' = [inflight EXCEPT
          ![s].pc = "decided",
          ![s].status = IF run.outcome = "raised" THEN 500 ELSE 200,
          ![s].analysis = run.analysis,
          ![s].tier = IF run.outcome = "raised" THEN "none"
                      ELSE get_assessment_tier(run.students, s)]

DecidedRun(s, run) ==
    Decided(s, run, IF run.outcome = "returned"
                    THEN AlertFor(s, Get(run.analysis)) ELSE None)

Decide(s) ==
    /\ inflight[s].pc = "assessment_read"
    /\ requests' = requests + 1
    /\ DecidedRun(s, Finish(inflight[s],
                            CalculateFrom(s, inflight[s].message.message_text,
                                          Get(inflight[s].context),
                                          inflight[s].llm.si, inflight[s].llm.dep, "none",
                                          Get(inflight[s].temporal_patterns),
                                          Get(inflight[s].latest_assessment))))

\* the tail of the endpoint: in TIER_1 the baseline is tracked once the
\* collaborator has answered, then the response goes out
Track(s) ==
    /\ inflight[s].pc = "decided"
    /\ students' = IF inflight[s].tier = "TIER_1_PASSIVE"
                   THEN track_passive_monitoring(students, s)
                   ELSE students
    /\ inflight' = [inflight EXCEPT ![s].pc = "done"]
    /\ UNCHANGED << risk_profiles, assessments, alerts, message_analyses, sessions, now,
                    requests, last, calls, learning, trajectory >>

EnrichAny == \E s \in Students : Enrich(s)
ReadHistoryAny == \E s \in Students : ReadHistory(s)
ReadAssessmentAny == \E s \in Students : ReadAssessment(s)
DecideAny == \E s \in Students : Decide(s)
TrackAny == \E s \in Students : Track(s)

NextConcurrent == EnrichAny \/ ReadHistoryAny \/ ReadAssessmentAny \/ DecideAny \/ TrackAny

SpecConcurrent == InitConcurrent /\ [][NextConcurrent]_vars

\* what student_id's request has left so far
Observed(student_id) ==
    Outcome(inflight[student_id].status, inflight[student_id].analysis,
            students, risk_profiles, message_analyses, sessions, alerts, student_id)

\* C24: two requests of two different students, interleaved at any of their
\* suspension points, leave each student the response, the risk profile, the
\* alerts and the stored rows that the student's request leaves when it is
\* processed alone from the same tables.
C24_ConcurrentStudentsAreIndependent ==
    \A s \in Students :
        inflight[s].pc = "done" => Observed(s) = inflight[s].alone

\* s1's request decided and finished between the decision of s2's request
\* and its tail; both are first requests that returned the crisis protocol,
\* and each has its own alert
C24_Witness ==
    /\ inflight["s1"].pc = "done"
    /\ inflight["s2"].pc = "decided"
    /\ last.student_id = "s1"
    /\ inflight["s2"].tier = "TIER_1_PASSIVE"
    /\ \A s \in Students :
          /\ IsSome(inflight[s].analysis)
          /\ Get(inflight[s].analysis).crisis_protocol_triggered
          /\ Len(RowsOf(alerts, s)) = 1
    /\ Len(alerts) = 2

\* the names of the patterns whose detector evaluated true
DetectedNames(details) ==
    { PatternNames[i] : i \in { j \in 1..Len(PatternNames) :
         \/ (PatternNames[j] = "rapid_deterioration" /\ details.rapid_deterioration)
         \/ (PatternNames[j] = "pre_decision_calm" /\ details.pre_decision_calm)
         \/ (PatternNames[j] = "chronic_elevated" /\ details.chronic_elevated)
         \/ (PatternNames[j] = "cyclical" /\ details.cyclical)
         \/ (PatternNames[j] = "disengagement" /\ details.disengagement) } }

\* the names in a patterns list
ListedNames(patterns) == { patterns[i] : i \in 1..Len(patterns) }

\* C25: the patterns list returned by analyze_trajectory (the
\* temporal_patterns recorded in the risk profile) holds exactly the names of
\* the patterns whose detector evaluated true for the history, and is empty
\* when no pattern was detected.
C25_PatternsListIsDetectedPatterns ==
    IsSome(trajectory.result) =>
        ListedNames(Get(trajectory.result).patterns)
           = DetectedNames(Get(trajectory.result).pattern_details)

\* C26: whenever a returned MessageAnalysis reports response_generated =
\* true, its response_text is present, neither null nor empty; this includes
\* the requests whose reply generation failed at checkpoint 3.
C26_GeneratedResponseHasText ==
    (IsSome(last.analysis) /\ Get(last.analysis).response_generated) =>
        /\ IsSome(Get(last.analysis).response_text)
        /\ Get(Get(last.analysis).response_text) # ""

\* C27: every RiskProfile returned with overall_risk HIGH or CRISIS is
\* escalated, whatever its confidence: its recommended_action is not
\* continue_monitoring, and its alert recommendation has should_alert = true
\* with an alert_type other than NONE.
C27_HighAndCrisisAreEscalated ==
    ( /\ IsSome(last.analysis)
      /\ IsSome(Get(last.analysis).risk_profile)
      /\ Get(Get(last.analysis).risk_profile).overall_risk \in {"HIGH", "CRISIS"} )
    => /\ Get(Get(last.analysis).risk_profile).recommended_action # "continue_monitoring"
       /\ Get(Get(last.analysis).risk_profile).alert_recommendation.should_alert
       /\ Get(Get(last.analysis).risk_profile).alert_recommendation.alert_type # "NONE"

\* the messages recorded in the sessions of a student
SessionMessages(table, student_id) ==
    SumSeq([i \in 1..Len(table) |->
              IF table[i].student_id = student_id THEN Len(table[i].messages) ELSE 0])

\* the request just served has added an audit row for its message and a
\* message to a session of its student
Recorded ==
    /\ Len(message_analyses') = Len(message_analyses) + 1
    /\ message_analyses'[Len(message_analyses')].student_id = last'.student_id
    /\ message_analyses'[Len(message_analyses')].message_text = last'.message_text
    /\ SessionMessages(sessions', last'.student_id)
          > SessionMessages(sessions, last'.student_id)

\* C28: every message for which process_message returns a response, on the
\* crisis branch as on the normal path, is recorded in the audit log (a
\* MessageAnalysis row) and in a session of the student.
C28_EveryResponseIsRecorded ==
    [][(requests' = requests + 1 /\ last'.outcome = "returned") => Recorded]_vars

\* the suicidal-ideation factor of a risk profile is present
IdeationPresent(risk_profile) ==
    /\ IsSome(risk_profile.risk_factors.suicidal_ideation)
    /\ Get(risk_profile.risk_factors.suicidal_ideation).present

\* checkpoint 5 answers the profile with the crisis protocol whatever the reply
GatedAsCrisis(risk_profile) ==
    \A llm_response \in GateReplies :
        /\ _checkpoint_5_response_gating(llm_response, risk_profile).crisis_triggered
        /\ _checkpoint_5_response_gating(llm_response, risk_profile).final_response
              = Some(crisis_protocol_message)

\* C29: a risk profile whose suicidal-ideation factor is present has
\* overall_risk CRISIS and is answered with the crisis protocol at gating,
\* whatever the factor's source, confidence or literalness: the safety flags,
\* a C-SSRS score, a contextual answer (is_literal false included) or the
\* keyword fallback with confidence 0.3.
C29_IdeationForcesCrisis ==
    ( /\ IsSome(calc_out)
      /\ IsSome(Get(calc_out).result)
      /\ IdeationPresent(Get(Get(calc_out).result)) )
    => /\ Get(Get(calc_out).result).overall_risk = "CRISIS"
       /\ GatedAsCrisis(Get(Get(calc_out).result))

\* the collaborator failed on 'i keep thinking about killing myself' (no
\* safety flag, no C-SSRS score): the keyword fallback gave the factor
\* confidence 0.3, and the profile is CRISIS
C29_Witness ==
    /\ IsSome(calc_out)
    /\ IsSome(Get(calc_out).result)
    /\ Get(calc_in).message_text = "i keep thinking about killing myself"
    /\ Get(calc_in).si_answer = LLMRaise
    /\ IdeationPresent(Get(Get(calc_out).result))
    /\ Get(Get(Get(calc_out).result).risk_factors.suicidal_ideation).confidence = Conf(30)
    /\ Get(Get(calc_out).result).overall_risk = "CRISIS"

\* the risk codes the temporal patterns of the analysed series contribute to
\* overall_risk when no other factor is present
PatternCodes ==
    LET codes == risk_scores(RiskFactors(None, None, None), Get(trajectory.result))
    IN { codes[i] : i \in 1..Len(codes) }

\* C30: rapid_deterioration is flagged only for series whose risk score
\* worsens (last score higher than the first); a series whose last score is
\* lower than its first is never flagged and contributes no risk code 3 to
\* overall_risk.
C30_RapidDeteriorationOnlyWhenWorsening ==
    IsSome(trajectory.result) =>
        LET scores == SeriesScores
            flagged == Get(trajectory.result).pattern_details.rapid_deterioration
        IN /\ flagged => scores[Len(scores)] > scores[1]
           /\ scores[Len(scores)] < scores[1] => (~flagged /\ 3 \notin PatternCodes)

====
